---- MODULE Spec2Model ----
(***************************************************************************)
(* The undo adapter of usd-qt: UsdQtUndoRouter (pending inversion, depth,  *)
(* mute depth), UsdQtUndoBlock (constructor / destructor),                 *)
(* UsdQtUndoInverse (adopt / invert) and UsdQt_UndoStateDelegate (one      *)
(* inverse per primitive layer mutation).                                  *)
(*                                                                         *)
(* The layer's storage is the Sdf library's; its primitives are modelled   *)
(* here by what the delegate relies on: a write with an empty value erases *)
(* the field, a write to a missing spec changes nothing, a delete and a    *)
(* move act on the subtree of a path, a child push appends to and a child  *)
(* pop removes the last element of a vector-valued field.                  *)
(*                                                                         *)
(* The program is single threaded.  The only place where host code runs in *)
(* the middle of a call of the adapter is the delivery of UndoStackNotice  *)
(* in ~UsdQtUndoBlock: the destructor is split there, the part of the call *)
(* that remains is kept as a frame of `frames`, and it is completed by     *)
(* NoticeReturn when the listener returns.                                 *)
(***************************************************************************)
EXTENDS Integers, Sequences, FiniteSets, TLC

(***************************************************************************)
(* Bounds of the model.                                                    *)
(***************************************************************************)
MaxDepth == 2       \* explicit blocks the host keeps open at once
MaxMute == 1        \* _muteDepth stays within -MaxMute .. MaxMute
MaxFrames == 1      \* notices being delivered at once (listener re-entrancy)
MaxEdits == 2       \* primitive layer mutations the host makes in one run
MaxBatch == 2       \* mutations of the batch of SpecBatch
MaxReplays == 2     \* SpecReplay: Invert() calls on the transaction
MaxInverts == 3     \* Invert() calls of SpecBatch

(***************************************************************************)
(* Values.  An optional value (a VtValue that may be empty) is a sequence  *)
(* of length 0 or 1.                                                       *)
(***************************************************************************)
None == <<>>
Some(v) == <<v>>

Vals == {1, 2}
Times == {"t1", "t2"}
Keys == {"k"}
Tokens == {"x", "y"}
Txns == {"T", "U"}

PathA == <<"A">>
PathAB == <<"A", "B">>
PathC == <<"C">>
PathCB == <<"C", "B">>
Paths == {PathA, PathAB, PathC, PathCB}

\* A second layer, with a delegate of its own: its paths are those under M.
Layers == {"L", "M"}
PathM == <<"M">>
PathMB == <<"M", "B">>
PathsM == {PathM, PathMB}
AllPaths == Paths \cup PathsM

\* The scripting-side UndoBlock objects, and what the _block of one says: the
\* null pointer, the block it allocated, that block while delete runs its
\* destructor, and nothing once the object itself is destroyed.
PyBlocks == {"b", "c"}
Null == "0"
Allocated == "block"
Deleting == "deleting"
Destroyed == "destroyed"

LayerOf(p) == IF p \in PathsM THEN "M" ELSE "L"

Default == "default"
CustomData == "customData"
TimeSamples == "timeSamples"
PrimChildren == "primChildren"
ConnectionChildren == "connectionChildren"

EmptyFields == [n \in {} |-> 0]
NoSpec == [type |-> "None", fields |-> EmptyFields]
EmptyData == [p \in AllPaths |-> NoSpec]

(***************************************************************************)
(* SdfAbstractData / SdfLayer primitives, as the delegate uses them.       *)
(***************************************************************************)
HasSpec(data, p) == data[p].type # "None"

HasField(data, p, f) == HasSpec(data, p) /\ f \in DOMAIN data[p].fields

GetField(data, p, f) ==
    IF HasField(data, p, f) THEN Some(data[p].fields[f]) ELSE None

GetSpecType(data, p) == data[p].type

IsPrefix(root, p) ==
    /\ Len(root) <= Len(p)
    /\ SubSeq(p, 1, Len(root)) = root

Rebase(p, old, new) == new \o SubSeq(p, Len(old) + 1, Len(p))

\* SdfLayer::Traverse(path, func): the specs of the subtree rooted at path.
Traverse(data, root) ==
    {p \in AllPaths : IsPrefix(root, p) /\ HasSpec(data, p)}

\* SdfData::Set / Erase on one field of one spec.
PutField(fields, f, v) ==
    IF v = None
    THEN [n \in DOMAIN fields \ {f} |-> fields[n]]
    ELSE [n \in DOMAIN fields \cup {f} |-> IF n = f THEN v[1] ELSE fields[n]]

PrimSetField(data, p, f, v) ==
    IF ~HasSpec(data, p) THEN data
    ELSE [data EXCEPT ![p].fields = PutField(@, f, v)]

\* A partial map (a dictionary, a time-sample map) with one entry set or erased.
PutEntry(m, k, v) ==
    IF v = None
    THEN [j \in DOMAIN m \ {k} |-> m[j]]
    ELSE [j \in DOMAIN m \cup {k} |-> IF j = k THEN v[1] ELSE m[j]]

MapOf(data, p, f) ==
    IF HasField(data, p, f) THEN data[p].fields[f] ELSE EmptyFields

GetEntry(data, p, f, k) ==
    IF k \in DOMAIN MapOf(data, p, f) THEN Some(MapOf(data, p, f)[k]) ELSE None

\* Setting or erasing one entry; the field goes when its last entry goes.
PrimSetEntry(data, p, f, k, v) ==
    LET m == PutEntry(MapOf(data, p, f), k, v)
    IN  PrimSetField(data, p, f, IF DOMAIN m = {} THEN None ELSE Some(m))

PrimCreateSpec(data, p, type) ==
    [data EXCEPT ![p].type = type]

PrimDeleteSpec(data, p) ==
    [q \in AllPaths |-> IF q \in Traverse(data, p) THEN NoSpec ELSE data[q]]

PrimMoveSpec(data, old, new) ==
    IF ~HasSpec(data, old) \/ HasSpec(data, new) THEN data
    ELSE [q \in AllPaths |->
            IF IsPrefix(new, q) /\ Rebase(q, new, old) \in Traverse(data, old)
            THEN data[Rebase(q, new, old)]
            ELSE IF q \in Traverse(data, old) THEN NoSpec
            ELSE data[q]]

VecOf(data, p, f) ==
    IF HasField(data, p, f) THEN data[p].fields[f] ELSE <<>>

PrimPushChild(data, p, f, v) ==
    PrimSetField(data, p, f, Some(Append(VecOf(data, p, f), v)))

\* A vector with no element and an absent field are not told apart: the field
\* goes with its last element.
PrimPopChild(data, p, f) ==
    LET vec == VecOf(data, p, f)
    IN  IF vec = <<>> THEN data
        ELSE IF Len(vec) = 1 THEN PrimSetField(data, p, f, None)
        ELSE PrimSetField(data, p, f, Some(SubSeq(vec, 1, Len(vec) - 1)))

\* _CopySpecAtPath for every spec of a traversal, into data that holds none of
\* them yet.
CopySpecs(src, dst, specs) ==
    [q \in AllPaths |-> IF q \in specs THEN src[q] ELSE dst[q]]

(***************************************************************************)
(* The state of the program.                                               *)
(***************************************************************************)
VARIABLES
    depth,       \* UsdQtUndoRouter::_depth
    muteDepth,   \* UsdQtUndoRouter::_muteDepth
    inversion,   \* UsdQtUndoRouter::_inversion: the pending inverses, in capture order
    txn,         \* the host's UsdQtUndoInverse objects: Txns -> sequence of inverses
    data,        \* the tracked layer's specs and fields
    dirty,       \* UsdQt_UndoStateDelegate::_dirty, of each layer's delegate
    layer,       \* UsdQt_UndoStateDelegate::_layer is a live handle, of each
                 \* layer's delegate (FALSE too where no delegate is attached)
    frames,      \* destructors waiting for the listener of their notice to return
    last,        \* the last call: its name, what it returned (TRUE for a call
                 \* that returns nothing, FALSE for one that does not return),
                 \* what it reported
    edits,       \* the primitive mutations the host has made
    blocks,      \* the UsdQtUndoBlock objects the host holds
    phase,       \* SpecBatch: where the scenario stands
    before,      \* SpecBatch: the layer when the batch's block was opened
    after,       \* SpecBatch: the layer when the batch was adopted
    batch,       \* SpecBatch: the mutations of the batch, in order
    notices,     \* SpecBatch: the notices sent so far
    inverts,     \* SpecBatch: the Invert() calls made so far
    detail,      \* SpecReplay: the arguments and the course of the last call
    running,     \* the Invert() call in progress, where it is taken step by step
    stage,       \* the prims of the UsdStage the table and the cache look at
    pathToId,    \* UsdQt_PrimIdTable::_pathToId
    idToItem,    \* UsdQt_PrimIdTable::_idToItem
    nextAvailableId, \* UsdQt_PrimIdTable::_nextAvailableId
    stateMap,    \* UsdQtPrimFilterCache::_stateMap
    runs,        \* the calls of _RunFilter made so far: where each stands
    filter,      \* the filter ApplyFilter was called with
    block        \* UsdQt_PythonUndoBlock::_block, of each scripting-side object

core == <<depth, muteDepth, inversion, txn, data, dirty, layer, frames, last>>
scenario == <<phase, before, after, batch, notices, inverts, detail>>
views == <<stage, pathToId, idToItem, nextAvailableId, stateMap, runs, filter>>
others == <<running, views, block>>
vars == <<core, edits, blocks, scenario, others>>

(***************************************************************************)
(* The part of the state a call of the adapter works on, threaded through  *)
(* the calls it makes.  errs collects what the call reports (TF_CODING_    *)
(* ERROR, TF_VERIFY, TF_WARN), sent the notices it sends without a         *)
(* listener running in between, applied the inverses it applies.           *)
(***************************************************************************)
Cur ==
    [depth |-> depth, muteDepth |-> muteDepth, inversion |-> inversion,
     data |-> data, dirty |-> dirty, layer |-> layer,
     errs |-> {}, notify |-> FALSE, sent |-> 0, applied |-> <<>>]

ErrFragmented == "Opening fragmented undo block"
ErrNotAdopted == "All edits have not been adopted"
ErrDepth == "TF_VERIFY(router._depth >= 0)"
ErrInvertInBlock == "Inversion during open edit block"
ErrMuteDepth == "Mute depth error"
ErrExpired == "Cannot invert for expired layer"
WarnMuted == "Performance Warning"

Report(s, e) == [s EXCEPT !.errs = @ \cup {e}]

(***************************************************************************)
(* UsdQtUndoBlock.                                                         *)
(***************************************************************************)
\* _Initialize clearing the fragments it reports.
InitializeClearsFragments(s) ==
    IF s.depth = 0 /\ Len(s.inversion) # 0
    THEN [Report(s, ErrFragmented) EXCEPT !.inversion = <<>>, !.depth = @ + 1]
    ELSE [s EXCEPT !.depth = @ + 1]

\* _Initialize returning right after it has reported the fragmented block.
InitializeReturnsEarly(s) ==
    IF s.depth = 0 /\ Len(s.inversion) # 0
    THEN Report(s, ErrFragmented)
    ELSE [s EXCEPT !.depth = @ + 1]

\* UsdQtUndoBlock::_Initialize
Initialize(s) ==
    LET s1 == IF s.depth >= 0 THEN s ELSE Report(s, ErrDepth)
        s2 == IF s1.depth = 0 /\ Len(s1.inversion) # 0
              THEN Report(s1, ErrFragmented) ELSE s1
    IN  [s2 EXCEPT !.depth = @ + 1]

\* The destructor sending the notice for an empty undo block too.
DestructorEnterAlwaysSends(s) ==
    LET s1 == [s EXCEPT !.depth = @ - 1]
    IN  [s1 EXCEPT !.notify = (s1.depth = 0)]

\* The destructor taking a pending list of one inverse for an empty one.
DestructorEnterSkipsSingle(s) ==
    LET s1 == [s EXCEPT !.depth = @ - 1]
        s2 == IF s1.depth >= 0 THEN s1 ELSE Report(s1, ErrDepth)
    IN  [s2 EXCEPT !.notify = (s2.depth = 0 /\ ~(Len(s2.inversion) <= 1))]

\* ~UsdQtUndoBlock up to the delivery of UndoStackNotice: notify says that the
\* notice is being sent.
DestructorEnter(s) ==
    LET s1 == [s EXCEPT !.depth = @ - 1]
        s2 == IF s1.depth >= 0 THEN s1 ELSE Report(s1, ErrDepth)
    IN  [s2 EXCEPT !.notify = (s2.depth = 0 /\ ~(Len(s2.inversion) < 1))]

\* The destructor reporting the edits that were not adopted and keeping them.
DestructorLeaveKeeps(s) ==
    IF Len(s.inversion) > 0 THEN Report(s, ErrNotAdopted) ELSE s

\* ~UsdQtUndoBlock after the notice has been delivered.
DestructorLeave(s) ==
    IF Len(s.inversion) > 0
    THEN [Report(s, ErrNotAdopted) EXCEPT !.inversion = <<>>]
    ELSE s

\* A notice sent where no listener can act on it before the sender goes on.
Unheard(s) ==
    IF s.notify
    THEN DestructorLeave([s EXCEPT !.notify = FALSE, !.sent = @ + 1])
    ELSE s

(***************************************************************************)
(* UsdQtUndoRouter.                                                        *)
(***************************************************************************)
\* UsdQtUndoInverse::_Append on the router's inversion.
AppendInverse(s, op) == [s EXCEPT !.inversion = Append(@, op)]

\* _AddInverse without a block of its own.
AddInverseWithoutBlock(s, op) == AppendInverse(s, op)

\* _AddInverse with a block that is gone before the inverse is appended.
AddInverseOutsideBlock(s, op) ==
    AppendInverse(DestructorEnter(Initialize(s)), op)

\* UsdQtUndoRouter::_AddInverse, up to the notice its block may send.
AddInverse(s, op) == DestructorEnter(AppendInverse(Initialize(s), op))

\* UsdQtUndoRouter::IsMuted
IsMuted(s) == s.muteDepth > 0

\* UsdQtUndoRouter::_Mute
MuteRouter(s) == [s EXCEPT !.muteDepth = @ + 1]

\* UsdQtUndoRouter::_Unmute
UnmuteRouter(s) ==
    LET s1 == [s EXCEPT !.muteDepth = @ - 1]
    IN  IF s1.muteDepth < 0 THEN Report(s1, ErrMuteDepth) ELSE s1

(***************************************************************************)
(* UsdQt_UndoStateDelegate.  A mutation is a record naming the primitive   *)
(* and its arguments; an inverse is a record naming the bound _Invert...   *)
(* member and its bound arguments.                                         *)
(***************************************************************************)
\* The delegate a mutation goes through, and the delegate an inverse is bound
\* to (the `this` of std::bind): the one of the layer that holds the path.
This(m) ==
    LayerOf(IF "path" \in DOMAIN m THEN m.path
            ELSE IF "parent" \in DOMAIN m THEN m.parent
            ELSE m.old)

\* _MarkCurrentStateAsDirty doing nothing while the router is muted.
MarkCurrentStateAsDirtyUnlessMuted(s, this) ==
    IF IsMuted(s) THEN s ELSE [s EXCEPT !.dirty[this] = TRUE]

\* UsdQt_UndoStateDelegate::_MarkCurrentStateAsClean
MarkCurrentStateAsClean(s, this) == [s EXCEPT !.dirty[this] = FALSE]

\* UsdQt_UndoStateDelegate::_MarkCurrentStateAsDirty
MarkCurrentStateAsDirty(s, this) == [s EXCEPT !.dirty[this] = TRUE]

\* UsdQt_UndoStateDelegate::_OnSetLayer: the handle is kept when it is valid
\* and set to NULL when it is not.
OnSetLayer(s, this, valid) == [s EXCEPT !.layer[this] = valid]

\* UsdQtUndoRouter::TrackLayer on a valid handle: a new delegate (not dirty)
\* is made the state delegate of the layer, which hands itself to the delegate
\* (_OnSetLayer); true is returned.
TrackLayer(s, l) ==
    [router |-> OnSetLayer([s EXCEPT !.dirty[l] = FALSE], l, TRUE),
     ret |-> TRUE]

\* UsdQtUndoRouter::TrackLayer on a handle that is not valid: `layer->` is
\* applied to it before anything else.  The call ends the process there, or
\* goes on to the only return statement there is; no delegate is attached.
TrackInvalidLayer == {"fatal", "returns"}

ErrDereference == "Dereferenced an invalid layer handle"

\* _RouteInverse with the mute test negated.
RouteInverseWhenMuted(s, op) ==
    IF IsMuted(s) THEN AddInverse(s, op) ELSE Report(s, WarnMuted)

\* _RouteInverse without the test of IsMuted().
RouteInverseAlways(s, op) == AddInverse(s, op)

\* UsdQt_UndoStateDelegate::_RouteInverse
RouteInverse(s, op) ==
    IF ~IsMuted(s) THEN AddInverse(s, op) ELSE Report(s, WarnMuted)

\* _OnSetFieldImpl binding the value being written.
OnSetFieldBindsNewValue(d, m) ==
    [kind |-> "InvertSetField", path |-> m.path, field |-> m.field,
     value |-> m.value]

\* _OnSetFieldImpl
OnSetField(d, m) ==
    [kind |-> "InvertSetField", path |-> m.path, field |-> m.field,
     value |-> GetField(d, m.path, m.field)]

\* _OnSetFieldDictValueByKeyImpl binding the value being written.
OnSetFieldDictValueByKeyBindsNewValue(d, m) ==
    [kind |-> "InvertSetFieldDictValueByKey", path |-> m.path,
     field |-> m.field, key |-> m.key, value |-> m.value]

\* _OnSetFieldDictValueByKeyImpl
OnSetFieldDictValueByKey(d, m) ==
    [kind |-> "InvertSetFieldDictValueByKey", path |-> m.path,
     field |-> m.field, key |-> m.key,
     value |-> GetEntry(d, m.path, m.field, m.key)]

\* _OnSetTimeSampleImpl binding a per-sample revert whether the spec has the
\* field or not.
OnSetTimeSamplePerSample(d, m) ==
    [kind |-> "InvertSetTimeSample", path |-> m.path, time |-> m.time,
     value |-> GetEntry(d, m.path, TimeSamples, m.time)]

\* _OnSetTimeSampleImpl
OnSetTimeSample(d, m) ==
    IF ~HasField(d, m.path, TimeSamples)
    THEN [kind |-> "InvertSetField", path |-> m.path, field |-> TimeSamples,
          value |-> None]
    ELSE [kind |-> "InvertSetTimeSample", path |-> m.path, time |-> m.time,
          value |-> GetEntry(d, m.path, TimeSamples, m.time)]

\* _OnCreateSpec
OnCreateSpec(d, m) ==
    [kind |-> "InvertCreateSpec", path |-> m.path, inert |-> m.inert]

\* _OnDeleteSpec copying the spec at the path and not the specs below it.
OnDeleteSpecCopiesRoot(d, m) ==
    [kind |-> "InvertDeleteSpec", path |-> m.path, inert |-> m.inert,
     type |-> GetSpecType(d, m.path),
     deleted |-> CopySpecs(d, EmptyData, {m.path})]

\* _OnDeleteSpec
OnDeleteSpec(d, m) ==
    [kind |-> "InvertDeleteSpec", path |-> m.path, inert |-> m.inert,
     type |-> GetSpecType(d, m.path),
     deleted |-> CopySpecs(d, EmptyData, Traverse(d, m.path))]

\* _OnMoveSpec
OnMoveSpec(d, m) ==
    [kind |-> "InvertMoveSpec", old |-> m.old, new |-> m.new]

\* _OnPushChild, _OnPopChild (TfToken and SdfPath values)
OnPushTokenChild(d, m) ==
    [kind |-> "InvertPushTokenChild", parent |-> m.parent, field |-> m.field,
     value |-> m.value]

OnPushPathChild(d, m) ==
    [kind |-> "InvertPushPathChild", parent |-> m.parent, field |-> m.field,
     value |-> m.value]

OnPopTokenChild(d, m) ==
    [kind |-> "InvertPopTokenChild", parent |-> m.parent, field |-> m.field,
     value |-> m.value]

OnPopPathChild(d, m) ==
    [kind |-> "InvertPopPathChild", parent |-> m.parent, field |-> m.field,
     value |-> m.value]

\* The inverse the delegate binds for a mutation, from the layer as it is when
\* the hook runs (before the storage is written).
InverseOf(d, m) ==
    CASE m.kind = "SetField" -> OnSetField(d, m)
      [] m.kind = "SetFieldDictValueByKey" -> OnSetFieldDictValueByKey(d, m)
      [] m.kind = "SetTimeSample" -> OnSetTimeSample(d, m)
      [] m.kind = "CreateSpec" -> OnCreateSpec(d, m)
      [] m.kind = "DeleteSpec" -> OnDeleteSpec(d, m)
      [] m.kind = "MoveSpec" -> OnMoveSpec(d, m)
      [] m.kind = "PushTokenChild" -> OnPushTokenChild(d, m)
      [] m.kind = "PushPathChild" -> OnPushPathChild(d, m)
      [] m.kind = "PopTokenChild" -> OnPopTokenChild(d, m)
      [] m.kind = "PopPathChild" -> OnPopPathChild(d, m)

\* The hook of a mutation: mark dirty, bind the inverse, route it.
On(s, m) ==
    RouteInverse(MarkCurrentStateAsDirty(s, This(m)), InverseOf(s.data, m))

\* What the layer's storage does for a mutation once the hook has returned.
Prim(d, m) ==
    CASE m.kind = "SetField" -> PrimSetField(d, m.path, m.field, m.value)
      [] m.kind = "SetFieldDictValueByKey" ->
            PrimSetEntry(d, m.path, m.field, m.key, m.value)
      [] m.kind = "SetTimeSample" ->
            PrimSetEntry(d, m.path, TimeSamples, m.time, m.value)
      [] m.kind = "CreateSpec" -> PrimCreateSpec(d, m.path, m.type)
      [] m.kind = "DeleteSpec" -> PrimDeleteSpec(d, m.path)
      [] m.kind = "MoveSpec" -> PrimMoveSpec(d, m.old, m.new)
      [] m.kind \in {"PushTokenChild", "PushPathChild"} ->
            PrimPushChild(d, m.parent, m.field, m.value)
      [] m.kind \in {"PopTokenChild", "PopPathChild"} ->
            PrimPopChild(d, m.parent, m.field)

\* A mutation made through the delegate from inside the adapter (the SetField,
\* DeleteSpec, ... calls of the _Invert... members): the hook, then the storage.
Through(s, m) ==
    LET s1 == Unheard(On(s, m))
    IN  [s1 EXCEPT !.data = Prim(@, m)]

Applied(s, op, ok) == [s EXCEPT !.applied = Append(@, [op |-> op, ok |-> ok])]

\* An inverse that does nothing and returns true when its layer has expired.
ExpiredSilently(s, op) == Applied(s, op, TRUE)

Expired(s, op) == Applied(Report(s, ErrExpired), op, FALSE)

\* _InvertSetField
InvertSetField(s, op) ==
    IF ~s.layer[This(op)] THEN Expired(s, op)
    ELSE Applied(Through(s, [kind |-> "SetField", path |-> op.path,
                             field |-> op.field, value |-> op.value]), op, TRUE)

\* _InvertSetFieldDictValueByKey
InvertSetFieldDictValueByKey(s, op) ==
    IF ~s.layer[This(op)] THEN Expired(s, op)
    ELSE Applied(Through(s, [kind |-> "SetFieldDictValueByKey",
                             path |-> op.path, field |-> op.field,
                             key |-> op.key, value |-> op.value]), op, TRUE)

\* _InvertSetTimeSample
InvertSetTimeSample(s, op) ==
    IF ~s.layer[This(op)] THEN Expired(s, op)
    ELSE Applied(Through(s, [kind |-> "SetTimeSample", path |-> op.path,
                             time |-> op.time, value |-> op.value]), op, TRUE)

\* _InvertCreateSpec
InvertCreateSpec(s, op) ==
    IF ~s.layer[This(op)] THEN Expired(s, op)
    ELSE Applied(Through(s, [kind |-> "DeleteSpec", path |-> op.path,
                             inert |-> op.inert]), op, TRUE)

\* _CopySpec for each spec the _SpecCopier visits: written to the layer's data
\* directly, the spec's type set and each of its fields set.
SpecCopier(src, dst) ==
    [q \in AllPaths |->
        IF HasSpec(src, q)
        THEN [type |-> src[q].type,
              fields |-> [n \in DOMAIN dst[q].fields \cup DOMAIN src[q].fields |->
                            IF n \in DOMAIN src[q].fields
                            THEN src[q].fields[n] ELSE dst[q].fields[n]]]
        ELSE dst[q]]

\* _InvertDeleteSpec writing the fields of the re-created spec through the
\* delegate's SetField, one call for each field.
RECURSIVE SetFieldsThrough(_, _, _, _)
SetFieldsThrough(s, p, fields, names) ==
    IF names = {} THEN s
    ELSE LET n == CHOOSE x \in names : TRUE
         IN  SetFieldsThrough(
                Through(s, [kind |-> "SetField", path |-> p, field |-> n,
                            value |-> Some(fields[n])]),
                p, fields, names \ {n})

InvertDeleteSpecThroughHooks(s, op) ==
    IF ~s.layer[This(op)] THEN Expired(s, op)
    ELSE LET s1 == Through(s, [kind |-> "CreateSpec", path |-> op.path,
                               type |-> op.type, inert |-> op.inert])
             s2 == SetFieldsThrough(s1, op.path, op.deleted[op.path].fields,
                                    DOMAIN op.deleted[op.path].fields)
         IN  Applied([s2 EXCEPT !.data = SpecCopier(op.deleted, @)], op, TRUE)

\* _InvertDeleteSpec
InvertDeleteSpec(s, op) ==
    IF ~s.layer[This(op)] THEN Expired(s, op)
    ELSE LET s1 == Through(s, [kind |-> "CreateSpec", path |-> op.path,
                               type |-> op.type, inert |-> op.inert])
         IN  Applied([s1 EXCEPT !.data = SpecCopier(op.deleted, @)], op, TRUE)

\* _InvertMoveSpec moving from the old path to the new one once more.
InvertMoveSpecSameWay(s, op) ==
    IF ~s.layer[This(op)] THEN Expired(s, op)
    ELSE Applied(Through(s, [kind |-> "MoveSpec", old |-> op.old,
                             new |-> op.new]), op, TRUE)

\* _InvertMoveSpec
InvertMoveSpec(s, op) ==
    IF ~s.layer[This(op)] THEN Expired(s, op)
    ELSE Applied(Through(s, [kind |-> "MoveSpec", old |-> op.new,
                             new |-> op.old]), op, TRUE)

\* _InvertPushTokenChild
InvertPushTokenChild(s, op) ==
    IF ~s.layer[This(op)] THEN Expired(s, op)
    ELSE Applied(Through(s, [kind |-> "PopTokenChild", parent |-> op.parent,
                             field |-> op.field, value |-> op.value]), op, TRUE)

\* _InvertPopTokenChild
InvertPopTokenChild(s, op) ==
    IF ~s.layer[This(op)] THEN Expired(s, op)
    ELSE Applied(Through(s, [kind |-> "PushTokenChild", parent |-> op.parent,
                             field |-> op.field, value |-> op.value]), op, TRUE)

\* _InvertPushPathChild
InvertPushPathChild(s, op) ==
    IF ~s.layer[This(op)] THEN Expired(s, op)
    ELSE Applied(Through(s, [kind |-> "PopPathChild", parent |-> op.parent,
                             field |-> op.field, value |-> op.value]), op, TRUE)

\* _InvertPopPathChild
InvertPopPathChild(s, op) ==
    IF ~s.layer[This(op)] THEN Expired(s, op)
    ELSE Applied(Through(s, [kind |-> "PushPathChild", parent |-> op.parent,
                             field |-> op.field, value |-> op.value]), op, TRUE)

\* Calling a bound inverse.
Call(s, op) ==
    CASE op.kind = "InvertSetField" -> InvertSetField(s, op)
      [] op.kind = "InvertSetFieldDictValueByKey" ->
            InvertSetFieldDictValueByKey(s, op)
      [] op.kind = "InvertSetTimeSample" -> InvertSetTimeSample(s, op)
      [] op.kind = "InvertCreateSpec" -> InvertCreateSpec(s, op)
      [] op.kind = "InvertDeleteSpec" -> InvertDeleteSpec(s, op)
      [] op.kind = "InvertMoveSpec" -> InvertMoveSpec(s, op)
      [] op.kind = "InvertPushTokenChild" -> InvertPushTokenChild(s, op)
      [] op.kind = "InvertPopTokenChild" -> InvertPopTokenChild(s, op)
      [] op.kind = "InvertPushPathChild" -> InvertPushPathChild(s, op)
      [] op.kind = "InvertPopPathChild" -> InvertPopPathChild(s, op)

(***************************************************************************)
(* UsdQtUndoInverse.                                                       *)
(***************************************************************************)
\* _Invert leaving the loop at the first inverse that returns false.
RECURSIVE InvertFromUntilFailure(_, _, _)
InvertFromUntilFailure(s, ops, i) ==
    IF ~(i < Len(ops)) THEN s
    ELSE LET s1 == Call(s, ops[Len(ops) - i])
         IN  IF ~s1.applied[Len(s1.applied)].ok THEN s1
             ELSE InvertFromUntilFailure(s1, ops, i + 1)

\* _Invert calling the inverses first to last.
RECURSIVE InvertFromFirst(_, _, _)
InvertFromFirst(s, ops, i) ==
    IF ~(i < Len(ops)) THEN s
    ELSE InvertFromFirst(Call(s, ops[i + 1]), ops, i + 1)

\* UsdQtUndoInverse::_Invert: for i = 0 .. size - 1, call _inversion[size - i - 1].
RECURSIVE InvertFrom(_, _, _)
InvertFrom(s, ops, i) ==
    IF ~(i < Len(ops)) THEN s
    ELSE InvertFrom(Call(s, ops[Len(ops) - i]), ops, i + 1)

InvertOps(s, ops) == InvertFrom(s, ops, 0)

\* _Adopt putting the inverses of the other list in front of its own.
AdoptInFront(own, other) == other \o own

\* UsdQtUndoInverse::_Adopt: push back each inverse of the other list, in order.
Adopt(own, other) == own \o other

\* UsdQtUndoInverse::_Clear
Clear(own) == <<>>

\* TransferEdits leaving the router's list as it is.
TransferEditsKeeps(s, own) ==
    [router |-> s, own |-> Adopt(own, s.inversion), ret |-> TRUE]

\* UsdQtUndoRouter::TransferEdits: the router's state and the transaction's list
\* after the call, and what the call returns.
TransferEdits(s, own) ==
    [router |-> [s EXCEPT !.inversion = Clear(@)],
     own |-> Adopt(own, s.inversion),
     ret |-> TRUE]

\* Invert() returning once it has reported the open block.
InvertRefusesInBlock(s, own) ==
    IF s.depth # 0
    THEN [router |-> Report(s, ErrInvertInBlock), own |-> own, ret |-> None]
    ELSE LET s2 == Initialize(s)
             s3 == InvertOps(s2, own)
             s4 == [s3 EXCEPT !.inversion = Clear(@)]
         IN  [router |-> DestructorEnter(s4),
              own |-> Adopt(Clear(own), s3.inversion), ret |-> None]

\* Invert() adopting the captures of the replay on top of what it held.
InvertKeepsHeld(s, own) ==
    LET s1 == IF s.depth # 0 THEN Report(s, ErrInvertInBlock) ELSE s
        s3 == InvertOps(Initialize(s1), own)
        s4 == [s3 EXCEPT !.inversion = Clear(@)]
    IN  [router |-> DestructorEnter(s4), own |-> Adopt(own, s3.inversion),
         ret |-> None]

\* Invert() adopting the captures of the replay and leaving them pending in
\* the router when its block closes.
InvertLeavesPending(s, own) ==
    LET s1 == IF s.depth # 0 THEN Report(s, ErrInvertInBlock) ELSE s
        s3 == InvertOps(Initialize(s1), own)
    IN  [router |-> DestructorEnter(s3),
         own |-> Adopt(Clear(own), s3.inversion), ret |-> None]

\* Invert() adopting the captures of its replay only and leaving what was
\* pending before it in the router.
InvertAdoptsOnlyItsReplay(s, own) ==
    LET s1 == IF s.depth # 0 THEN Report(s, ErrInvertInBlock) ELSE s
        s3 == InvertOps(Initialize(s1), own)
        s4 == [s3 EXCEPT !.inversion = s.inversion]
    IN  [router |-> DestructorEnter(s4),
         own |-> Adopt(Clear(own), SubSeq(s3.inversion, Len(s.inversion) + 1,
                                          Len(s3.inversion))),
         ret |-> None]

\* UsdQtUndoInverse::Invert, up to the notice the destructor of editBlock may
\* send: the router's state and the transaction's list.  Invert() is a void
\* function: what the inverses return is dropped in _Invert, and the caller
\* is handed nothing.
Invert(s, own) ==
    LET s1 == IF s.depth # 0 THEN Report(s, ErrInvertInBlock) ELSE s
        s2 == Initialize(s1)
        s3 == InvertOps(s2, own)
        own1 == Adopt(Clear(own), s3.inversion)
        s4 == [s3 EXCEPT !.inversion = Clear(@)]
    IN  [router |-> DestructorEnter(s4), own |-> own1, ret |-> None]

\* Invert() taken step by step.  InvertEnter: the test of the depth and the
\* constructor of editBlock.
InvertEnter(s) ==
    Initialize(IF s.depth # 0 THEN Report(s, ErrInvertInBlock) ELSE s)

\* One iteration of the loop of _Invert: the call of _inversion[size - i - 1].
InvertStep(s, ops, i) == Call(s, ops[Len(ops) - i])

\* The end of Invert() adopting as many pending inverses as it held and
\* leaving the others pending when its block closes.
InvertLeaveAdoptsAsManyAsHeld(s, own) ==
    LET n == IF Len(own) < Len(s.inversion) THEN Len(own) ELSE Len(s.inversion)
    IN  [router |-> DestructorEnter(
                        [s EXCEPT !.inversion = SubSeq(@, n + 1, Len(@))]),
         own |-> Adopt(Clear(own), SubSeq(s.inversion, 1, n)),
         ret |-> None]

\* The end of Invert(): _Clear(), _Adopt(router._inversion),
\* router._inversion._Clear(), and the destructor of editBlock up to the notice
\* it may send.
InvertLeave(s, own) ==
    [router |-> DestructorEnter([s EXCEPT !.inversion = Clear(@)]),
     own |-> Adopt(Clear(own), s.inversion),
     ret |-> None]

(***************************************************************************)
(* The mutations the host makes: what the layer's authoring API lets       *)
(* through to the delegate.  Fields are written on specs that exist: the   *)
(* default value, the time samples and the connection children of an       *)
(* attribute, the custom data and the prim children of a prim.  A spec is  *)
(* created where none is and its parent is, deleted or moved where one is, *)
(* and a child is popped from a vector that has one.                       *)
(***************************************************************************)
OptVals == {None} \cup {Some(v) : v \in Vals}

Parent(p) == SubSeq(p, 1, Len(p) - 1)

HasParent(d, p) == Len(p) = 1 \/ HasSpec(d, Parent(p))

Prims(d, P) == {p \in P : GetSpecType(d, p) = "Prim"}

Attrs(d, P) == {p \in P : GetSpecType(d, p) = "Attr"}

FieldWrites(d, P) ==
    {[kind |-> "SetField", path |-> p, field |-> Default, value |-> v] :
        p \in Attrs(d, P), v \in OptVals}

DictWrites(d, P) ==
    {[kind |-> "SetFieldDictValueByKey", path |-> p, field |-> CustomData,
      key |-> k, value |-> v] :
        p \in Prims(d, P), k \in Keys, v \in OptVals}

SampleWrites(d, P) ==
    {[kind |-> "SetTimeSample", path |-> p, time |-> t, value |-> v] :
        p \in Attrs(d, P), t \in Times, v \in OptVals}

Creates(d, P) ==
    {[kind |-> "CreateSpec", path |-> p,
      type |-> IF Len(p) = 1 THEN "Prim" ELSE "Attr", inert |-> i] :
        p \in {q \in P : ~HasSpec(d, q) /\ HasParent(d, q)}, i \in BOOLEAN}

Deletes(d, P) ==
    {[kind |-> "DeleteSpec", path |-> p, inert |-> FALSE] :
        p \in {q \in P : HasSpec(d, q)}}

Moves(d, P) ==
    {[kind |-> "MoveSpec", old |-> pq[1], new |-> pq[2]] :
        pq \in {x \in P \X Paths :
                    /\ HasSpec(d, x[1]) /\ ~HasSpec(d, x[2])
                    /\ Len(x[1]) = Len(x[2]) /\ HasParent(d, x[2])
                    /\ LayerOf(x[1]) = LayerOf(x[2])}}

TokenPushes(d, P) ==
    {[kind |-> "PushTokenChild", parent |-> p, field |-> PrimChildren,
      value |-> v] :
        p \in {q \in Prims(d, P) : Len(VecOf(d, q, PrimChildren)) < 2},
        v \in Tokens}

TokenPops(d, P) ==
    {[kind |-> "PopTokenChild", parent |-> p, field |-> PrimChildren,
      value |-> VecOf(d, p, PrimChildren)[Len(VecOf(d, p, PrimChildren))]] :
        p \in {q \in Prims(d, P) : VecOf(d, q, PrimChildren) # <<>>}}

PathPushes(d, P) ==
    {[kind |-> "PushPathChild", parent |-> p, field |-> ConnectionChildren,
      value |-> v] :
        p \in {q \in Attrs(d, P) : Len(VecOf(d, q, ConnectionChildren)) < 2},
        v \in {PathA, PathC}}

PathPops(d, P) ==
    {[kind |-> "PopPathChild", parent |-> p, field |-> ConnectionChildren,
      value |-> VecOf(d, p, ConnectionChildren)[
                    Len(VecOf(d, p, ConnectionChildren))]] :
        p \in {q \in Attrs(d, P) : VecOf(d, q, ConnectionChildren) # <<>>}}

Mutations(d, P) ==
    FieldWrites(d, P) \cup DictWrites(d, P) \cup SampleWrites(d, P)
    \cup Creates(d, P) \cup Deletes(d, P) \cup Moves(d, P)
    \cup TokenPushes(d, P) \cup TokenPops(d, P)
    \cup PathPushes(d, P) \cup PathPops(d, P)

(***************************************************************************)
(* The calls of the host.                                                  *)
(***************************************************************************)
Commit(s) ==
    /\ depth' = s.depth
    /\ muteDepth' = s.muteDepth
    /\ inversion' = s.inversion
    /\ data' = s.data
    /\ dirty' = s.dirty
    /\ layer' = s.layer

Did(name, arg, ret, s) ==
    last' = [op |-> name, ret |-> ret, errs |-> s.errs, sent |-> s.sent]

\* The destructor that ends the call sends its notice: the rest of the call
\* waits in a frame for the listener to return.
Suspend(s, frame) ==
    /\ Len(frames) < MaxFrames
    /\ Commit([s EXCEPT !.notify = FALSE])
    /\ frames' = Append(frames, frame)

\* The frame of a suspended call: what remains of the call, and the blocks the
\* host holds when the listener is entered.  A block is a scoped object: the
\* blocks the listener opens are closed when it returns.
Frame(kind, m, held) == [kind |-> kind, m |-> m, blocks |-> held]

\* UsdQtUndoBlock::UsdQtUndoBlock
BlockOpen ==
    /\ blocks < MaxDepth
    /\ LET s == Initialize(Cur)
       IN  Commit(s) /\ Did("BlockOpen", None, TRUE, s)
    /\ blocks' = blocks + 1
    /\ UNCHANGED <<txn, frames, edits>>

\* UsdQtUndoBlock::~UsdQtUndoBlock of a block the host opened
BlockClose ==
    /\ blocks > 0
    /\ LET s == DestructorEnter(Cur)
       IN  /\ IF s.notify
              THEN Suspend(s, Frame("close", None, blocks - 1))
              ELSE Commit(s) /\ UNCHANGED frames
           /\ Did("BlockClose", None, TRUE, s)
    /\ blocks' = blocks - 1
    /\ UNCHANGED <<txn, edits>>

\* A primitive mutation of the tracked layer: the delegate's hook, then the
\* storage.  When the hook's own block sends the notice, the storage is
\* written after the listener has returned.
Edit(m, limit) ==
    /\ edits < limit
    /\ edits' = edits + 1
    /\ LET s == On(Cur, m)
       IN  /\ IF s.notify
              THEN Suspend(s, Frame("edit", m, blocks))
              ELSE Commit([s EXCEPT !.data = Prim(@, m)]) /\ UNCHANGED frames
           /\ Did("Edit", m, TRUE, s)
    /\ UNCHANGED <<txn, blocks>>

\* The listener of UndoStackNotice returns: the destructor that sent the
\* notice finishes, and so does the call it ends.
NoticeReturn ==
    /\ frames # <<>>
    /\ blocks = frames[Len(frames)].blocks
    /\ LET s == DestructorLeave(Cur)
           f == frames[Len(frames)]
       IN  /\ Commit(IF f.kind = "edit"
                     THEN [s EXCEPT !.data = Prim(@, f.m)] ELSE s)
           /\ Did("NoticeReturn", None, TRUE, s)
    /\ frames' = SubSeq(frames, 1, Len(frames) - 1)
    /\ UNCHANGED <<txn, edits, blocks>>

\* TransferEdits on a list that every UsdQtUndoInverse shares.
TransferIntoShared(t) ==
    /\ LET r == TransferEdits(Cur, txn[t])
       IN  /\ Commit(r.router)
           /\ txn' = [u \in Txns |-> Adopt(txn[u], inversion)]
           /\ Did("TransferEdits", t, r.ret, r.router)
    /\ UNCHANGED <<frames, edits, blocks>>

\* UsdQtUndoRouter::TransferEdits(&txn[t])
Transfer(t) ==
    /\ LET r == TransferEdits(Cur, txn[t])
       IN  /\ Commit(r.router)
           /\ txn' = [txn EXCEPT ![t] = r.own]
           /\ Did("TransferEdits", t, r.ret, r.router)
    /\ UNCHANGED <<frames, edits, blocks>>

\* txn[t].Invert()
InvertTxn(t) ==
    /\ LET r == Invert(Cur, txn[t])
       IN  /\ IF r.router.notify
              THEN Suspend(r.router, Frame("close", None, blocks))
              ELSE Commit(r.router) /\ UNCHANGED frames
           /\ txn' = [txn EXCEPT ![t] = r.own]
           /\ Did("Invert", t, TRUE, r.router)
    /\ UNCHANGED <<edits, blocks>>

\* The host drops txn[t] from its stack and starts over with UsdQtUndoInverse().
Discard(t) ==
    /\ txn[t] # <<>>
    /\ txn' = [txn EXCEPT ![t] = <<>>]
    /\ Did("Discard", t, TRUE, Cur)
    /\ UNCHANGED <<depth, muteDepth, inversion, data, dirty, layer, frames,
                   edits, blocks>>

\* UsdQtUndoRouter::_Mute
Mute ==
    /\ muteDepth < MaxMute
    /\ LET s == MuteRouter(Cur)
       IN  Commit(s) /\ Did("Mute", None, TRUE, s)
    /\ UNCHANGED <<txn, frames, edits, blocks>>

\* UsdQtUndoRouter::_Unmute
Unmute ==
    /\ muteDepth > -MaxMute
    /\ LET s == UnmuteRouter(Cur)
       IN  Commit(s) /\ Did("Unmute", None, TRUE, s)
    /\ UNCHANGED <<txn, frames, edits, blocks>>

(***************************************************************************)
(* Spec: the host calls the adapter in any order, also from the listener   *)
(* of the notice.                                                          *)
(***************************************************************************)
\* No table and no filter cache have been constructed.
NoViews ==
    /\ stage = {}
    /\ pathToId = <<>>
    /\ idToItem = <<>>
    /\ nextAvailableId = 0
    /\ stateMap = <<>>
    /\ runs = <<>>
    /\ filter = <<>>

InitData ==
    [EmptyData EXCEPT
        ![PathA] = [type |-> "Prim", fields |-> EmptyFields],
        ![PathAB] = [type |-> "Attr", fields |-> [default |-> 1]]]

InitCore ==
    /\ depth = 0
    /\ muteDepth = 0
    /\ inversion = <<>>
    /\ txn = [t \in Txns |-> <<>>]
    /\ dirty = [l \in Layers |-> FALSE]
    /\ layer = [l \in Layers |-> l = "L"]
    /\ frames = <<>>
    /\ edits = 0
    /\ blocks = 0
    /\ last = [op |-> "Init", ret |-> TRUE, errs |-> {}, sent |-> 0]
    /\ running = None
    /\ NoViews
    /\ block = [o \in PyBlocks |-> Null]

Init ==
    /\ InitCore
    /\ data = InitData
    /\ phase = "free"
    /\ before = EmptyData
    /\ after = EmptyData
    /\ batch = <<>>
    /\ notices = 0
    /\ inverts = 0
    /\ detail = None

HostEdit == \E m \in FieldWrites(data, {PathAB}) : Edit(m, MaxEdits)

HostTransfer == \E t \in {"T"} : Transfer(t)

HostInvert == \E t \in {"T"} : InvertTxn(t)

HostDiscard == \E t \in {"T"} : Discard(t)

Next ==
    \/ BlockOpen /\ UNCHANGED scenario /\ UNCHANGED others
    \/ BlockClose /\ UNCHANGED scenario /\ UNCHANGED others
    \/ HostEdit /\ UNCHANGED scenario /\ UNCHANGED others
    \/ NoticeReturn /\ UNCHANGED scenario /\ UNCHANGED others
    \/ HostTransfer /\ UNCHANGED scenario /\ UNCHANGED others
    \/ HostInvert /\ UNCHANGED scenario /\ UNCHANGED others
    \/ HostDiscard /\ UNCHANGED scenario /\ UNCHANGED others
    \/ Mute /\ UNCHANGED scenario /\ UNCHANGED others
    \/ Unmute /\ UNCHANGED scenario /\ UNCHANGED others

Spec == Init /\ [][Next]_vars

(***************************************************************************)
(* SpecCapture: mutations of every kind, made at any depth and mute depth, *)
(* by a host that adopts what it is notified of or does not.               *)
(***************************************************************************)
CaptureEdit == \E m \in Mutations(data, {PathA, PathAB}) : Edit(m, MaxEdits)

NextCapture ==
    \/ BlockOpen /\ UNCHANGED scenario /\ UNCHANGED others
    \/ BlockClose /\ UNCHANGED scenario /\ UNCHANGED others
    \/ CaptureEdit /\ UNCHANGED scenario /\ UNCHANGED others
    \/ NoticeReturn /\ UNCHANGED scenario /\ UNCHANGED others
    \/ HostTransfer /\ UNCHANGED scenario /\ UNCHANGED others
    \/ Mute /\ UNCHANGED scenario /\ UNCHANGED others
    \/ Unmute /\ UNCHANGED scenario /\ UNCHANGED others

SpecCapture == Init /\ [][NextCapture]_vars

(***************************************************************************)
(* SpecBatch: one batch and its transaction.  The host opens a block at    *)
(* depth 0, makes up to MaxBatch mutations of any kind in it (inside       *)
(* nested blocks or not), closes it, adopts the batch into T from the      *)
(* listener of the notice, and then calls T.Invert() again and again, with *)
(* nothing else touching the layer, the router or T.                       *)
(***************************************************************************)
RichData ==
    [EmptyData EXCEPT
        ![PathA] = [type |-> "Prim",
                    fields |-> [customData |-> [k |-> 1],
                                primChildren |-> <<"x">>]],
        ![PathAB] = [type |-> "Attr",
                     fields |-> [default |-> 1, timeSamples |-> [t1 |-> 1]]]]

BatchData == {InitData, RichData}

InitBatch ==
    /\ InitCore
    /\ data \in BatchData
    /\ phase = "idle"
    /\ before = EmptyData
    /\ after = EmptyData
    /\ batch = <<>>
    /\ notices = 0
    /\ inverts = 0
    /\ detail = None

Counted ==
    notices' = notices + last'.sent
                 + (IF Len(frames') > Len(frames) THEN 1 ELSE 0)

BatchOpen ==
    /\ phase = "idle"
    /\ BlockOpen
    /\ phase' = "open"
    /\ before' = data
    /\ Counted
    /\ UNCHANGED <<after, batch, inverts, detail>>

BatchNest ==
    /\ phase = "open"
    /\ BlockOpen
    /\ Counted
    /\ UNCHANGED <<phase, before, after, batch, inverts, detail>>

BatchUnnest ==
    /\ phase = "open"
    /\ blocks > 1
    /\ BlockClose
    /\ Counted
    /\ UNCHANGED <<phase, before, after, batch, inverts, detail>>

BatchEdit ==
    /\ phase = "open"
    /\ \E m \in Mutations(data, Paths) :
            /\ Edit(m, MaxBatch)
            /\ batch' = Append(batch, m)
    /\ Counted
    /\ UNCHANGED <<phase, before, after, inverts, detail>>

BatchClose ==
    /\ phase = "open"
    /\ blocks = 1
    /\ BlockClose
    /\ phase' = IF Len(frames') > Len(frames) THEN "notified" ELSE "empty"
    /\ Counted
    /\ UNCHANGED <<before, after, batch, inverts, detail>>

BatchAdopt ==
    /\ phase = "notified"
    /\ Transfer("T")
    /\ phase' = "adopting"
    /\ after' = data
    /\ Counted
    /\ UNCHANGED <<before, batch, inverts, detail>>

BatchReturn ==
    /\ phase = "adopting"
    /\ NoticeReturn
    /\ phase' = "adopted"
    /\ Counted
    /\ UNCHANGED <<before, after, batch, inverts, detail>>

BatchInvert ==
    /\ phase = "adopted"
    /\ inverts < MaxInverts
    /\ InvertTxn("T")
    /\ inverts' = inverts + 1
    /\ Counted
    /\ UNCHANGED <<phase, before, after, batch, detail>>

NextBatch ==
    \/ BatchOpen /\ UNCHANGED others
    \/ BatchNest /\ UNCHANGED others
    \/ BatchUnnest /\ UNCHANGED others
    \/ BatchEdit /\ UNCHANGED others
    \/ BatchClose /\ UNCHANGED others
    \/ BatchAdopt /\ UNCHANGED others
    \/ BatchReturn /\ UNCHANGED others
    \/ BatchInvert /\ UNCHANGED others

SpecBatch == InitBatch /\ [][NextBatch]_vars

(***************************************************************************)
(* SpecReplay: two layers, and what Invert() does call by call.  The host  *)
(* tracks layers, opens a block, makes up to MaxBatch mutations in it (of  *)
(* any kind on the first layer, field writes on the second one once it is  *)
(* tracked), closes it and adopts the batch into T.  After that a layer's  *)
(* handle may expire, blocks may be opened and closed, and T.Invert() is   *)
(* called, inside a block or not.                                          *)
(***************************************************************************)
ReplayData ==
    [RichData EXCEPT
        ![PathM] = [type |-> "Prim", fields |-> EmptyFields],
        ![PathMB] = [type |-> "Attr", fields |-> [default |-> 1]]]

InitReplay ==
    /\ InitCore
    /\ data = ReplayData
    /\ phase = "idle"
    /\ before = EmptyData
    /\ after = EmptyData
    /\ batch = <<>>
    /\ notices = 0
    /\ inverts = 0
    /\ detail = None

\* UsdQtUndoRouter::TrackLayer(layer)
TrackLayerCall(l, valid) ==
    /\ IF valid
       THEN LET r == TrackLayer(Cur, l)
            IN  /\ Commit(r.router)
                /\ Did("TrackLayer", l, r.ret, r.router)
                /\ detail' = [layer |-> l, valid |-> TRUE, ret |-> Some(r.ret)]
                /\ phase' = phase
       ELSE \E outcome \in TrackInvalidLayer :
                /\ Commit(Cur)
                /\ Did("TrackLayer", l, outcome = "returns",
                       IF outcome = "fatal"
                       THEN Report(Cur, ErrDereference) ELSE Cur)
                /\ detail' = [layer |-> l, valid |-> FALSE,
                              ret |-> IF outcome = "fatal"
                                      THEN None ELSE Some(TRUE)]
                /\ phase' = IF outcome = "fatal" THEN "aborted" ELSE phase
    /\ UNCHANGED <<txn, frames, edits, blocks>>

\* The layer of a delegate goes away: UsdQt_UndoStateDelegate::_OnSetLayer(NULL)
LayerExpires(l) ==
    /\ layer[l]
    /\ LET s == OnSetLayer(Cur, l, FALSE)
       IN  Commit(s) /\ Did("OnSetLayer", l, TRUE, s)
    /\ UNCHANGED <<txn, frames, edits, blocks>>

ReplayTrack ==
    /\ phase = "idle"
    /\ \E l \in Layers, valid \in BOOLEAN : TrackLayerCall(l, valid)
    /\ UNCHANGED <<before, after, batch, notices, inverts>>

ReplayOpen ==
    /\ phase = "idle"
    /\ BlockOpen
    /\ phase' = "open"
    /\ detail' = None
    /\ UNCHANGED <<before, after, batch, notices, inverts>>

\* The mutations of SpecReplay: of every kind, with one new value for each
\* (or none, for a field write that erases).
ReplayInputs(m) ==
    /\ m.kind \in {"SetField", "SetFieldDictValueByKey", "SetTimeSample"}
            => m.value \in {None, Some(2)}
    /\ m.kind = "CreateSpec" => ~m.inert
    /\ m.kind = "PushTokenChild" => m.value = "y"
    /\ m.kind = "PushPathChild" => m.value = PathC

ReplayMutations(d, live) ==
    {m \in Mutations(d, {PathA, PathAB, PathC}) : ReplayInputs(m)}
    \cup {m \in FieldWrites(d, {p \in {PathMB} : live[LayerOf(p)]}) :
            ReplayInputs(m)}

ReplayEdit ==
    /\ phase = "open"
    /\ \E m \in ReplayMutations(data, layer) : Edit(m, MaxBatch)
    /\ UNCHANGED scenario

ReplayClose ==
    /\ phase = "open"
    /\ BlockClose
    /\ phase' = IF Len(frames') > Len(frames) THEN "notified" ELSE "empty"
    /\ UNCHANGED <<before, after, batch, notices, inverts, detail>>

ReplayAdopt ==
    /\ phase = "notified"
    /\ Transfer("T")
    /\ phase' = "adopting"
    /\ UNCHANGED <<before, after, batch, notices, inverts, detail>>

ReplayReturn ==
    /\ phase = "adopting"
    /\ NoticeReturn
    /\ phase' = "adopted"
    /\ UNCHANGED <<before, after, batch, notices, inverts, detail>>

ReplayExpire ==
    /\ phase = "adopted"
    /\ inverts < MaxReplays
    /\ \E l \in Layers : LayerExpires(l)
    /\ UNCHANGED scenario

ReplayNest ==
    /\ phase = "adopted"
    /\ inverts < MaxReplays
    /\ blocks = 0
    /\ BlockOpen
    /\ UNCHANGED scenario

ReplayUnnest ==
    /\ phase = "adopted"
    /\ BlockClose
    /\ UNCHANGED scenario

\* T.Invert(): detail keeps what T held, the depth at the call, the inverses
\* called with what each returned, and what the caller is handed.
ReplayInvert ==
    /\ phase = "adopted"
    /\ inverts < MaxReplays
    /\ InvertTxn("T")
    /\ inverts' = inverts + 1
    /\ detail' = [held |-> txn["T"], depth |-> depth, from |-> data,
                  applied |-> Invert(Cur, txn["T"]).router.applied,
                  ret |-> Invert(Cur, txn["T"]).ret]
    /\ UNCHANGED <<phase, before, after, batch, notices>>

NextReplay ==
    \/ ReplayTrack /\ UNCHANGED others
    \/ ReplayOpen /\ UNCHANGED others
    \/ ReplayEdit /\ UNCHANGED others
    \/ ReplayClose /\ UNCHANGED others
    \/ ReplayAdopt /\ UNCHANGED others
    \/ ReplayReturn /\ UNCHANGED others
    \/ ReplayExpire /\ UNCHANGED others
    \/ ReplayNest /\ UNCHANGED others
    \/ ReplayUnnest /\ UNCHANGED others
    \/ ReplayInvert /\ UNCHANGED others

SpecReplay == InitReplay /\ [][NextReplay]_vars

(***************************************************************************)
(* SpecDirty: the dirty flag of the tracked layer's delegate.  The host    *)
(* opens and closes blocks, mutes and unmutes the router, writes a field   *)
(* at any depth and mute depth, adopts what is pending, calls T.Invert(),  *)
(* and saves the layer, which marks the delegate's state clean.            *)
(***************************************************************************)
\* Saving the layer: Sdf calls _MarkCurrentStateAsClean on its delegate.
Save(l) ==
    /\ dirty[l]
    /\ LET s == MarkCurrentStateAsClean(Cur, l)
       IN  Commit(s) /\ Did("Save", l, TRUE, s)
    /\ UNCHANGED <<txn, frames, edits, blocks>>

DirtyInputs(m) == m.value \in {None, Some(2)}

DirtyEdit ==
    /\ \E m \in {w \in FieldWrites(data, {PathAB}) : DirtyInputs(w)} :
            Edit(m, MaxEdits)
    /\ UNCHANGED scenario

DirtyAdopt ==
    /\ inversion # <<>>
    /\ Transfer("T")
    /\ UNCHANGED scenario

\* T.Invert(): detail keeps what T held and whether the delegate was dirty.
DirtyInvert ==
    /\ frames = <<>>
    /\ inverts < MaxReplays
    /\ InvertTxn("T")
    /\ inverts' = inverts + 1
    /\ detail' = [held |-> txn["T"], dirty |-> dirty["L"]]
    /\ UNCHANGED <<phase, before, after, batch, notices>>

DirtyUnmute ==
    /\ muteDepth > 0
    /\ Unmute
    /\ UNCHANGED scenario

DirtySave ==
    /\ frames = <<>>
    /\ Save("L")
    /\ UNCHANGED scenario

NextDirty ==
    \/ BlockOpen /\ UNCHANGED scenario /\ UNCHANGED others
    \/ BlockClose /\ UNCHANGED scenario /\ UNCHANGED others
    \/ DirtyEdit /\ UNCHANGED others
    \/ NoticeReturn /\ UNCHANGED scenario /\ UNCHANGED others
    \/ DirtyAdopt /\ UNCHANGED others
    \/ DirtyInvert /\ UNCHANGED others
    \/ Mute /\ UNCHANGED scenario /\ UNCHANGED others
    \/ DirtyUnmute /\ UNCHANGED others
    \/ DirtySave /\ UNCHANGED others

SpecDirty == Init /\ [][NextDirty]_vars

(***************************************************************************)
(* SpecInterleave: Invert() with other edits in between.  A batch is made  *)
(* and adopted into T as in SpecBatch; T.Invert() is then taken one step   *)
(* at a time (the block opened, each inverse called, the captures adopted  *)
(* and the block closed), and between two steps another edit of the        *)
(* tracked layer may go through the delegate: one made by a listener of    *)
(* the layer's change notices, or by another thread whose calls fall       *)
(* between those of Invert().                                              *)
(***************************************************************************)
MaxOthers == 1
MaxRuns == 1

\* What has been appended to the pending list in this step, tagged.
Logged(who) ==
    [k \in 1..(Len(inversion') - Len(inversion)) |->
        [who |-> who, op |-> inversion'[Len(inversion) + k]]]

\* The mutations of the batch: of every kind, on a prim and its attribute.
InterleaveMutations(d) ==
    {m \in Mutations(d, {PathA, PathAB}) : ReplayInputs(m)}

InterleaveEdit ==
    /\ phase = "open"
    /\ \E m \in InterleaveMutations(data) :
            /\ Edit(m, MaxBatch)
            /\ batch' = Append(batch, m)
    /\ Counted
    /\ UNCHANGED <<phase, before, after, inverts, detail, running>>

\* T.Invert() up to the loop of _Invert.
InterleaveEnter ==
    /\ phase = "adopted"
    /\ running = None
    /\ inverts < MaxRuns
    /\ LET s == InvertEnter(Cur)
       IN  Commit(s) /\ Did("InvertEnter", "T", TRUE, s)
    /\ running' = [t |-> "T", i |-> 0]
    /\ detail' = [held |-> txn["T"], from |-> data, log |-> <<>>,
                  notices |-> notices]
    /\ UNCHANGED <<txn, frames, edits, blocks, phase, before, after, batch,
                   inverts>>
    /\ Counted

\* The next inverse is called.
InterleaveStep ==
    /\ running # None
    /\ running.i < Len(txn[running.t])
    /\ LET s == InvertStep(Cur, txn[running.t], running.i)
       IN  Commit(s) /\ Did("InvertStep", running.t, TRUE, s)
    /\ running' = [running EXCEPT !.i = @ + 1]
    /\ detail' = [detail EXCEPT !.log = @ \o Logged("replay")]
    /\ UNCHANGED <<txn, frames, edits, blocks, phase, before, after, batch,
                   inverts>>
    /\ Counted

\* The edits that come in between: field and dictionary-entry writes.
OtherMutations(d) ==
    {m \in FieldWrites(d, {PathAB}) \cup DictWrites(d, {PathA}) :
        m.value = Some(2)}

\* Another edit of the tracked layer while Invert() is running.
InterleaveOther ==
    /\ running # None
    /\ \E m \in OtherMutations(data) : Edit(m, Len(batch) + MaxOthers)
    /\ detail' = [detail EXCEPT !.log = @ \o Logged("other")]
    /\ Counted
    /\ UNCHANGED <<phase, before, after, batch, inverts, running>>

\* The loop is over: the captures are adopted and editBlock is destroyed.
InterleaveLeave ==
    /\ running # None
    /\ running.i = Len(txn[running.t])
    /\ LET r == InvertLeave(Cur, txn[running.t])
       IN  /\ IF r.router.notify
              THEN Suspend(r.router, Frame("close", None, blocks))
              ELSE Commit(r.router) /\ UNCHANGED frames
           /\ txn' = [txn EXCEPT ![running.t] = r.own]
           /\ Did("Invert", running.t, TRUE, r.router)
    /\ running' = None
    /\ inverts' = inverts + 1
    /\ Counted
    /\ UNCHANGED <<edits, blocks, phase, before, after, batch, detail>>

NextInterleave ==
    \/ BatchOpen /\ UNCHANGED others
    \/ InterleaveEdit /\ UNCHANGED <<views, block>>
    \/ BatchClose /\ UNCHANGED others
    \/ BatchAdopt /\ UNCHANGED others
    \/ BatchReturn /\ UNCHANGED others
    \/ InterleaveEnter /\ UNCHANGED <<views, block>>
    \/ InterleaveStep /\ UNCHANGED <<views, block>>
    \/ InterleaveOther /\ UNCHANGED <<views, block>>
    \/ InterleaveLeave /\ UNCHANGED <<views, block>>

InitInterleave == InitBatch /\ data = RichData

SpecInterleave == InitInterleave /\ [][NextInterleave]_vars

(***************************************************************************)
(* UsdQt_PrimIdTable.  The stage is a set of prim paths closed under       *)
(* parents; the table's predicate accepts every prim of the stage, and     *)
(* GetFilteredChildren lists a prim's children in path order.              *)
(***************************************************************************)
MaxId == 4
MaxIndex == 1

StageRoot == <<>>
StageOrder == << <<"a">>, <<"a", "x">>, <<"b">> >>
StagePrims == {StageOrder[i] : i \in 1..Len(StageOrder)}

\* The stages there are: the pseudo-root and prims that have their parent.
Stages ==
    {st \cup {StageRoot} : st \in
        {x \in SUBSET StagePrims : \A q \in x : Len(q) = 1 \/ Parent(q) \in x}}

\* prim.GetFilteredChildren(_predicate), as paths
GetFilteredChildren(st, p) ==
    SelectSeq(StageOrder,
              LAMBDA q : q \in st /\ Len(q) = Len(p) + 1 /\ IsPrefix(p, q))

Range(seq) == {seq[i] : i \in 1..Len(seq)}

\* The table a call works on, with what the call reports.
Table ==
    [pathToId |-> pathToId, idToItem |-> idToItem,
     nextAvailableId |-> nextAvailableId, errs |-> {}]

ErrNextId == "TF_VERIFY(_nextAvailableId < _maxId)"
ErrNoId == "Cannot find id in PrimIdTable"
ErrNoPath == "Cannot find path in PrimIdTable"
ErrIndex == "Index exceeds number of children"
ErrChildExpired == "Expected child has expired"
WarnIndices == "out of indices"
ErrLost == "Indices may have been lost during index resync"

\* UsdQt_PrimIdTable::_RegisterPrim
RegisterPrim(tb, st, path) ==
    LET tb1 == IF tb.nextAvailableId < MaxId THEN tb ELSE Report(tb, ErrNextId)
    IN  IF path \in DOMAIN tb1.pathToId THEN tb1
        ELSE [tb1 EXCEPT
                !.pathToId = (path :> tb1.nextAvailableId) @@ @,
                !.idToItem =
                    (tb1.nextAvailableId :>
                        [path |-> path,
                         children |-> GetFilteredChildren(st, path)]) @@ @,
                !.nextAvailableId = @ + 1]

\* RegisterChild giving a registered child a new id.
RegisterChildAssignsAgain(tb, st, id, index) ==
    IF id \notin DOMAIN tb.idToItem
    THEN [table |-> Report(tb, ErrNoId), ret |-> FALSE]
    ELSE IF index >= Len(tb.idToItem[id].children)
    THEN [table |-> Report(tb, ErrIndex), ret |-> FALSE]
    ELSE LET path == tb.idToItem[id].children[index + 1]
         IN  IF path \notin st
             THEN [table |-> Report(tb, ErrChildExpired), ret |-> FALSE]
             ELSE IF tb.nextAvailableId >= MaxId
             THEN [table |-> Report(tb, WarnIndices), ret |-> FALSE]
             ELSE [table |->
                     RegisterPrim(
                        [tb EXCEPT !.pathToId =
                            [q \in DOMAIN @ \ {path} |-> @[q]]],
                        st, path),
                   ret |-> TRUE]

\* UsdQt_PrimIdTable::RegisterChild: the table after the call and what the
\* call returns.
RegisterChild(tb, st, id, index) ==
    IF id \notin DOMAIN tb.idToItem
    THEN [table |-> Report(tb, ErrNoId), ret |-> FALSE]
    ELSE IF index >= Len(tb.idToItem[id].children)
    THEN [table |-> Report(tb, ErrIndex), ret |-> FALSE]
    ELSE LET path == tb.idToItem[id].children[index + 1]
         IN  IF path \in DOMAIN tb.pathToId
             THEN [table |-> tb, ret |-> TRUE]
             ELSE IF path \notin st
             THEN [table |-> Report(tb, ErrChildExpired), ret |-> FALSE]
             ELSE IF tb.nextAvailableId >= MaxId
             THEN [table |-> Report(tb, WarnIndices), ret |-> FALSE]
             ELSE [table |-> RegisterPrim(tb, st, path), ret |-> TRUE]

\* UsdQt_PrimIdTable::ContainsId: `return _idToItem.count(id) == 0;`
ContainsId(tb, id) == Cardinality({i \in DOMAIN tb.idToItem : i = id}) = 0

\* UsdQt_PrimIdTable::GetLastId
GetLastId(tb) == tb.nextAvailableId - 1

\* SdfPathTable::erase: the entry of the path goes, and with it the entries of
\* the paths below it.
PathTableErase(m, path) == [q \in {x \in DOMAIN m : ~IsPrefix(path, x)} |-> m[q]]

\* UsdQt_PrimIdTable::_DeleteSubtree, and its loop over the children.
RECURSIVE DeleteSubtree(_, _)
RECURSIVE DeleteSubtrees(_, _)
DeleteSubtrees(tb, children) ==
    IF children = <<>> THEN tb
    ELSE DeleteSubtrees(DeleteSubtree(tb, Head(children)), Tail(children))

DeleteSubtree(tb, path) ==
    IF path \notin DOMAIN tb.pathToId THEN tb
    ELSE LET id == tb.pathToId[path]
             tb1 == [tb EXCEPT !.pathToId = PathTableErase(@, path)]
             tb2 == DeleteSubtrees(tb1, tb1.idToItem[id].children)
         IN  [tb2 EXCEPT !.idToItem = [i \in DOMAIN @ \ {id} |-> @[i]]]

\* UsdQt_PrimIdTable::_InvalidateSubtree, and its loop over the children.
RECURSIVE InvalidateSubtree(_, _, _)
RECURSIVE InvalidateSubtrees(_, _, _)
InvalidateSubtrees(tb, st, paths) ==
    IF paths = <<>> THEN tb
    ELSE InvalidateSubtrees(InvalidateSubtree(tb, st, Head(paths)), st,
                            Tail(paths))

InvalidateSubtree(tb, st, path) ==
    IF path \notin DOMAIN tb.pathToId THEN tb
    ELSE LET id == tb.pathToId[path]
         IN  IF path \in st
             THEN LET tb1 == InvalidateSubtrees(tb, st,
                                                tb.idToItem[id].children)
                  IN  [tb1 EXCEPT !.idToItem[id].children =
                                        GetFilteredChildren(st, path)]
             ELSE DeleteSubtree(tb, path)

\* The children a resynced parent is given, and the paths found out of sync.
NewChildren(tb, st, parent, paths) ==
    SelectSeq(GetFilteredChildren(st, parent),
              LAMBDA c : c \in Range(tb.idToItem[tb.pathToId[parent]].children)
                         \/ c \in paths)

OutOfSync(tb, st, parent, paths) ==
    {c \in Range(GetFilteredChildren(st, parent)) :
        c \notin Range(tb.idToItem[tb.pathToId[parent]].children)
        /\ c \notin paths}
    \cup {c \in Range(tb.idToItem[tb.pathToId[parent]].children) :
            c \notin Range(NewChildren(tb, st, parent, paths))
            /\ c \notin paths}

\* UsdQt_PrimIdTable::ResyncSubtrees(paths), for paths whose parents are
\* registered prims of the stage.
ResyncSubtrees(tb, st, paths) ==
    LET uniqueParents == {Parent(q) : q \in paths}
        items == tb.idToItem
        tb1 == [tb EXCEPT !.idToItem =
                    [i \in DOMAIN items |->
                        IF /\ items[i].path \in uniqueParents
                           /\ tb.pathToId[items[i].path] = i
                        THEN [path |-> items[i].path,
                              children |-> NewChildren(tb, st, items[i].path,
                                                       paths)]
                        ELSE items[i]]]
        lost == UNION {OutOfSync(tb, st, parent, paths) :
                            parent \in uniqueParents}
        tb2 == IF lost # {} THEN Report(tb1, ErrLost) ELSE tb1
    IN  InvalidateSubtrees(tb2, st, SelectSeq(StageOrder, LAMBDA q : q \in paths))

(***************************************************************************)
(* SpecTable: a table over the stage's pseudo-root.  The stage changes,    *)
(* the host resyncs paths, registers children and asks for ids.            *)
(***************************************************************************)
\* The adapter of the undo stack is not used.
Unused ==
    /\ depth = 0
    /\ muteDepth = 0
    /\ inversion = <<>>
    /\ txn = [t \in Txns |-> <<>>]
    /\ data = EmptyData
    /\ dirty = [l \in Layers |-> FALSE]
    /\ layer = [l \in Layers |-> FALSE]
    /\ frames = <<>>
    /\ edits = 0
    /\ blocks = 0
    /\ phase = "free"
    /\ before = EmptyData
    /\ after = EmptyData
    /\ batch = <<>>
    /\ notices = 0
    /\ inverts = 0
    /\ running = None
    /\ block = [o \in PyBlocks |-> Null]

undo ==
    <<depth, muteDepth, inversion, txn, data, dirty, layer, frames, edits,
      blocks, phase, before, after, batch, notices, inverts, running, block>>

CommitTable(tb) ==
    /\ pathToId' = tb.pathToId
    /\ idToItem' = tb.idToItem
    /\ nextAvailableId' = tb.nextAvailableId

\* UsdQt_PrimIdTable::UsdQt_PrimIdTable(stage, root, predicate, maxId)
InitTable ==
    /\ Unused
    /\ stage \in Stages
    /\ LET tb == RegisterPrim([pathToId |-> <<>>, idToItem |-> <<>>,
                               nextAvailableId |-> 1, errs |-> {}],
                              stage, StageRoot)
       IN  /\ pathToId = tb.pathToId
           /\ idToItem = tb.idToItem
           /\ nextAvailableId = tb.nextAvailableId
    /\ stateMap = <<>>
    /\ runs = <<>>
    /\ filter = <<>>
    /\ last = [op |-> "Init", ret |-> TRUE, errs |-> {}, sent |-> 0]
    /\ detail = None

\* Prims are added to the stage or removed from it.
StageChange ==
    /\ \E st \in Stages \ {stage} : stage' = st
    /\ last' = [op |-> "StageChange", ret |-> TRUE, errs |-> {}, sent |-> 0]
    /\ UNCHANGED <<pathToId, idToItem, nextAvailableId, detail>>

\* table.RegisterChild(id, index): detail keeps the arguments, whether the
\* child was registered when the call was made, and the id it had.
RegisterChildCall ==
    \E id \in 0..MaxId, index \in 0..MaxIndex :
        LET r == RegisterChild(Table, stage, id, index)
            known == /\ id \in DOMAIN idToItem
                     /\ index < Len(idToItem[id].children)
            path == idToItem[id].children[index + 1]
            again == known /\ path \in DOMAIN pathToId
        IN  /\ CommitTable(r.table)
            /\ last' = [op |-> "RegisterChild", ret |-> r.ret,
                        errs |-> r.table.errs, sent |-> 0]
            /\ detail' = [id |-> id, index |-> index, again |-> again,
                          had |-> IF again THEN pathToId[path] ELSE 0,
                          path |-> IF known THEN Some(path) ELSE None]
            /\ UNCHANGED stage

\* table.ResyncSubtrees(paths)
ResyncCall ==
    \E paths \in SUBSET StagePrims \ {{}} :
        /\ \A q \in paths : Parent(q) \in DOMAIN pathToId /\ Parent(q) \in stage
        /\ LET tb == ResyncSubtrees(Table, stage, paths)
           IN  /\ CommitTable(tb)
               /\ last' = [op |-> "ResyncSubtrees", ret |-> TRUE,
                           errs |-> tb.errs, sent |-> 0]
        /\ detail' = [paths |-> paths]
        /\ UNCHANGED stage

\* table.ContainsId(id)
ContainsIdCall ==
    \E id \in 0..MaxId :
        /\ last' = [op |-> "ContainsId", ret |-> ContainsId(Table, id),
                    errs |-> {}, sent |-> 0]
        /\ detail' = [id |-> id]
        /\ UNCHANGED <<stage, pathToId, idToItem, nextAvailableId>>

NextTable ==
    \/ StageChange /\ UNCHANGED <<undo, stateMap, runs, filter>>
    \/ RegisterChildCall /\ UNCHANGED <<undo, stateMap, runs, filter>>
    \/ ResyncCall /\ UNCHANGED <<undo, stateMap, runs, filter>>
    \/ ContainsIdCall /\ UNCHANGED <<undo, stateMap, runs, filter>>

SpecTable == InitTable /\ [][NextTable]_vars

(***************************************************************************)
(* UsdQtPrimFilterCache.  _stateMap is keyed by the string of a path; a    *)
(* call of ApplyFilter clears it and runs _RunFilter on the root, which    *)
(* runs itself on the children of a prim in parallel (WorkParallelForEach) *)
(* and goes on when all of them have returned.  runs holds the activations *)
(* of _RunFilter of the call in progress, filter the function it was given.*)
(***************************************************************************)
Accept == "Accept"
Intermediate == "Intermediate"
Reject == "Reject"
Untraversed == "Untraversed"
States == {Accept, Intermediate, Reject, Untraversed}

\* SdfPath::GetString
RECURSIVE GetString(_)
GetString(path) ==
    IF path = <<>> THEN "/"
    ELSE IF Len(path) = 1 THEN "/" \o path[1]
    ELSE GetString(SubSeq(path, 1, Len(path) - 1)) \o "/" \o path[Len(path)]

\* UsdQtPrimFilterCache::GetState
GetState(map, path) ==
    IF Cardinality({k \in DOMAIN map : k = GetString(path)}) > 0
    THEN map[GetString(path)]
    ELSE Untraversed

\* The loop of _RunFilter over the children of an Intermediate prim:
\* _stateMap[child] makes an entry of the first enumerator for a key it does
\* not find.
RECURSIVE CheckChildren(_, _)
CheckChildren(map, children) ==
    IF children = <<>> THEN [map |-> map, state |-> Reject]
    ELSE LET k == GetString(Head(children))
             m == IF k \in DOMAIN map THEN map ELSE (k :> Accept) @@ map
         IN  IF m[k] = Accept THEN [map |-> m, state |-> Accept]
             ELSE CheckChildren(m, Tail(children))

\* _RunFilter storing the state the filter gave, children looked at or not.
RunFilterStoresAsFiltered(map, st, prim, state) ==
    (GetString(prim) :> state) @@ map

\* _RunFilter from the return of WorkParallelForEach to its own return: the
\* map it leaves.
RunFilterStore(map, st, prim, state) ==
    LET r == IF state = Intermediate
             THEN CheckChildren(map, GetFilteredChildren(st, prim))
             ELSE [map |-> map, state |-> state]
    IN  (GetString(prim) :> r.state) @@ r.map

\* The prim ApplyFilter was called on.
Outermost == CHOOSE p \in DOMAIN runs : \A q \in DOMAIN runs : IsPrefix(p, q)

Forked(p) ==
    IF runs[p].state = Some(Reject) THEN <<>>
    ELSE GetFilteredChildren(stage, p)

\* cache.ApplyFilter(root, f, predicate) is called.
ApplyFilter ==
    /\ runs = <<>>
    /\ \E root \in stage, f \in [stage -> States] :
        /\ filter' = f
        /\ runs' = (root :> [pc |-> "filter", state |-> None])
        /\ detail' = [root |-> root, running |-> TRUE]
    /\ stateMap' = <<>>
    /\ last' = [op |-> "ApplyFilter", ret |-> FALSE, errs |-> {}, sent |-> 0]
    /\ UNCHANGED stage

\* _RunFilter(p): filter(prim), and the children handed to the workers.
RunFilterCall(p) ==
    /\ p \in DOMAIN runs
    /\ runs[p].pc = "filter"
    /\ LET state == filter[p]
           children == IF state # Reject
                       THEN Range(GetFilteredChildren(stage, p)) ELSE {}
       IN  runs' = [q \in children |-> [pc |-> "filter", state |-> None]]
                   @@ [runs EXCEPT ![p] = [pc |-> "children",
                                           state |-> Some(state)]]
    /\ last' = [op |-> "_RunFilter", ret |-> FALSE, errs |-> {}, sent |-> 0]
    /\ detail' = [root |-> Outermost, running |-> TRUE]
    /\ UNCHANGED <<stage, stateMap, filter>>

\* _RunFilter(p) going on to its own children check without the join of
\* WorkParallelForEach.
RunFilterReturnWithoutJoin(p) ==
    /\ p \in DOMAIN runs
    /\ runs[p].pc = "children"
    /\ stateMap' = RunFilterStore(stateMap, stage, p, runs[p].state[1])
    /\ runs' = [runs EXCEPT ![p].pc = "done"]
    /\ last' = [op |-> "_RunFilter", ret |-> TRUE, errs |-> {}, sent |-> 0]
    /\ detail' = [root |-> Outermost, running |-> TRUE]
    /\ UNCHANGED <<stage, filter>>

\* _RunFilter(p): every child has returned; the state is settled and stored.
RunFilterReturn(p) ==
    /\ p \in DOMAIN runs
    /\ runs[p].pc = "children"
    /\ \A q \in Range(Forked(p)) : runs[q].pc = "done"
    /\ stateMap' = RunFilterStore(stateMap, stage, p, runs[p].state[1])
    /\ runs' = [runs EXCEPT ![p].pc = "done"]
    /\ last' = [op |-> "_RunFilter", ret |-> TRUE, errs |-> {}, sent |-> 0]
    /\ detail' = [root |-> Outermost, running |-> TRUE]
    /\ UNCHANGED <<stage, filter>>

\* ApplyFilter returns when the _RunFilter it called has.
ApplyFilterReturn ==
    /\ runs # <<>>
    /\ runs[Outermost].pc = "done"
    /\ runs' = <<>>
    /\ last' = [op |-> "ApplyFilter", ret |-> TRUE, errs |-> {}, sent |-> 0]
    /\ detail' = [root |-> Outermost, running |-> FALSE]
    /\ UNCHANGED <<stage, stateMap, filter>>

\* cache.GetState(path), from the thread of ApplyFilter or from another one
\* while it runs; path may be a prim that is not on the stage.
GetStateCall ==
    /\ \E path \in StagePrims \cup {StageRoot} :
        /\ last' = [op |-> "GetState", ret |-> GetState(stateMap, path),
                    errs |-> {}, sent |-> 0]
        /\ detail' = [path |-> path, running |-> runs # <<>>]
    /\ UNCHANGED <<stage, stateMap, runs, filter>>

table == <<pathToId, idToItem, nextAvailableId>>

NextFilter ==
    \/ ApplyFilter /\ UNCHANGED <<undo, table>>
    \/ \E p \in StagePrims \cup {StageRoot} :
        RunFilterCall(p) /\ UNCHANGED <<undo, table>>
    \/ \E p \in StagePrims \cup {StageRoot} :
        RunFilterReturn(p) /\ UNCHANGED <<undo, table>>
    \/ ApplyFilterReturn /\ UNCHANGED <<undo, table>>
    \/ GetStateCall /\ UNCHANGED <<undo, table>>

\* The cache is constructed empty, beside a table on the same stage; the
\* stage is not edited while the cache is in use.
SpecFilter == InitTable /\ [][NextFilter]_vars

(***************************************************************************)
(* SpecStacks: a host with two transactions, T and U.  It opens and closes *)
(* blocks, mutes and unmutes the router, writes a field at any depth, and  *)
(* adopts into either transaction and inverts either one, at any depth and *)
(* from the listener of a notice too.  detail keeps the transaction the    *)
(* last TransferEdits or Invert() was called on.                           *)
(***************************************************************************)
StacksHeld == <<phase, before, after, batch, notices, inverts>>

StacksEdit ==
    /\ \E m \in FieldWrites(data, {PathAB}) :
            m.value = Some(2) /\ Edit(m, MaxEdits)
    /\ UNCHANGED scenario

StacksTransfer ==
    \E t \in Txns :
        /\ Transfer(t)
        /\ detail' = [t |-> t]
        /\ UNCHANGED StacksHeld

StacksInvert ==
    \E t \in Txns :
        /\ InvertTxn(t)
        /\ detail' = [t |-> t]
        /\ UNCHANGED StacksHeld

NextStacks ==
    \/ BlockOpen /\ UNCHANGED scenario /\ UNCHANGED others
    \/ BlockClose /\ UNCHANGED scenario /\ UNCHANGED others
    \/ StacksEdit /\ UNCHANGED others
    \/ NoticeReturn /\ UNCHANGED scenario /\ UNCHANGED others
    \/ StacksTransfer /\ UNCHANGED others
    \/ StacksInvert /\ UNCHANGED others
    \/ Mute /\ UNCHANGED scenario /\ UNCHANGED others
    \/ Unmute /\ UNCHANGED scenario /\ UNCHANGED others

SpecStacks == Init /\ [][NextStacks]_vars

(***************************************************************************)
(* SpecAgain: two batches adopted into one transaction.  The host opens a  *)
(* block at depth 0, makes up to MaxBatch mutations in it, closes it and   *)
(* adopts the batch into T from the listener of the notice; it then does   *)
(* the same with a second batch of up to MaxAgain mutations, and calls     *)
(* T.Invert().  detail keeps what T held when the second block was opened. *)
(***************************************************************************)
MaxAgain == 1

\* The mutations of the two batches: field and dictionary writes, and the
\* deletion, creation and move of specs and the push and pop of a child.
AgainMutations(d) ==
    {m \in InterleaveMutations(d) :
        /\ m.kind \notin {"SetTimeSample", "PushPathChild", "PopPathChild"}
        /\ m.kind = "SetFieldDictValueByKey" => m.value = Some(2)}

AgainOpen ==
    /\ phase = "adopted"
    /\ detail = None
    /\ BlockOpen
    /\ phase' = "open"
    /\ detail' = [first |-> txn["T"], n |-> Len(batch), middle |-> data]
    /\ Counted
    /\ UNCHANGED <<before, after, batch, inverts>>

AgainEdit ==
    /\ phase = "open"
    /\ IF detail = None THEN Len(batch) < MaxBatch
       ELSE Len(batch) - detail.n < MaxAgain
    /\ \E m \in AgainMutations(data) :
            /\ Edit(m, MaxBatch + MaxAgain)
            /\ batch' = Append(batch, m)
    /\ Counted
    /\ UNCHANGED <<phase, before, after, inverts, detail>>

AgainInvert ==
    /\ detail # None
    /\ BatchInvert

NextAgain ==
    \/ BatchOpen /\ UNCHANGED others
    \/ AgainOpen /\ UNCHANGED others
    \/ AgainEdit /\ UNCHANGED others
    \/ BatchClose /\ UNCHANGED others
    \/ BatchAdopt /\ UNCHANGED others
    \/ BatchReturn /\ UNCHANGED others
    \/ AgainInvert /\ UNCHANGED others

SpecAgain == InitInterleave /\ [][NextAgain]_vars

(***************************************************************************)
(* SpecPlain: a host whose listener of the notice only adopts.  Blocks are *)
(* opened and closed, the field is written and T.Invert() is called with   *)
(* no listener running; from the listener the host calls TransferEdits or  *)
(* nothing; the router is muted and unmuted anywhere.                      *)
(***************************************************************************)
Listening == frames # <<>>

NextPlain ==
    \/ ~Listening /\ BlockOpen /\ UNCHANGED scenario /\ UNCHANGED others
    \/ ~Listening /\ BlockClose /\ UNCHANGED scenario /\ UNCHANGED others
    \/ ~Listening /\ HostEdit /\ UNCHANGED scenario /\ UNCHANGED others
    \/ NoticeReturn /\ UNCHANGED scenario /\ UNCHANGED others
    \/ HostTransfer /\ UNCHANGED scenario /\ UNCHANGED others
    \/ ~Listening /\ HostInvert /\ UNCHANGED scenario /\ UNCHANGED others
    \/ HostDiscard /\ UNCHANGED scenario /\ UNCHANGED others
    \/ Mute /\ UNCHANGED scenario /\ UNCHANGED others
    \/ Unmute /\ UNCHANGED scenario /\ UNCHANGED others

SpecPlain == Init /\ [][NextPlain]_vars

(***************************************************************************)
(* SpecDrain: Invert() inside a block of the host.  The host opens and     *)
(* closes blocks, writes a field, adopts into T and calls T.Invert(), at   *)
(* any depth and from the listener of a notice; the router is not muted.   *)
(* batch keeps the inverses the router was given since the last Invert()   *)
(* returned, detail what T held and what was pending when it was called.   *)
(***************************************************************************)
DrainEdit ==
    /\ \E m \in FieldWrites(data, {PathAB}) :
            m.value = Some(2) /\ Edit(m, MaxEdits + 1)
    /\ batch' = batch \o SubSeq(inversion', Len(inversion) + 1, Len(inversion'))
    /\ UNCHANGED <<phase, before, after, notices, inverts, detail>>

DrainInvert ==
    /\ inverts < MaxRuns
    /\ InvertTxn("T")
    /\ inverts' = inverts + 1
    /\ batch' = <<>>
    /\ detail' = [held |-> txn["T"], pending |-> inversion, depth |-> depth,
                  from |-> data]
    /\ UNCHANGED <<phase, before, after, notices>>

NextDrain ==
    \/ BlockOpen /\ UNCHANGED scenario /\ UNCHANGED others
    \/ BlockClose /\ UNCHANGED scenario /\ UNCHANGED others
    \/ DrainEdit /\ UNCHANGED others
    \/ NoticeReturn /\ UNCHANGED scenario /\ UNCHANGED others
    \/ HostTransfer /\ UNCHANGED scenario /\ UNCHANGED others
    \/ DrainInvert /\ UNCHANGED others

SpecDrain == Init /\ [][NextDrain]_vars

(***************************************************************************)
(* UsdQt_PythonUndoBlock, the UndoBlock of the scripting side: __enter__   *)
(* is Open, __exit__ is Close.  Close takes the three arguments of         *)
(* __exit__, which say how the scope was left, and does not look at them.  *)
(***************************************************************************)
ErrBlockOpen == "TF_VERIFY(_block == 0)"
ErrBlockClosed == "TF_VERIFY(_block != 0)"

\* What __exit__ is given: nothing on a normal exit, the exception otherwise.
ExitPaths == {None, Some("error")}

\* UsdQt_PythonUndoBlock::Open
Open(s, b) ==
    IF ~(b = Null)
    THEN [router |-> Report(s, ErrBlockOpen), block |-> b]
    ELSE [router |-> Initialize(s), block |-> Allocated]

\* Close keeping the block open when the scope is left by an exception.
CloseOnNormalExit(s, b, exc) ==
    IF ~(b # Null)
    THEN [router |-> Report(s, ErrBlockClosed), block |-> b]
    ELSE IF exc # None
         THEN [router |-> s, block |-> b]
         ELSE [router |-> DestructorEnter(s), block |-> Null]

\* UsdQt_PythonUndoBlock::Close, up to the notice the destructor of the block
\* may send
Close(s, b, exc) ==
    IF ~(b # Null)
    THEN [router |-> Report(s, ErrBlockClosed), block |-> b]
    ELSE [router |-> DestructorEnter(s), block |-> Null]

\* UsdQt_PythonUndoBlock::~UsdQt_PythonUndoBlock, up to the notice: delete of
\* a null pointer does nothing.
Destroy(s, b) ==
    IF b = Null THEN s ELSE DestructorEnter(s)

(***************************************************************************)
(* SpecPy: a script holds the objects of PyBlocks and calls __enter__ and  *)
(* __exit__ on them in any order, drops them and makes new ones, writes a  *)
(* field and adopts into T, from the listener of a notice too.  It does    *)
(* not call __exit__ on, or drop, the object whose __exit__ is delivering  *)
(* the notice.  detail keeps the object of the last call.                  *)
(***************************************************************************)
PyHeld == <<phase, before, after, batch, notices, inverts>>

\* UsdQt_PythonUndoBlock::UsdQt_PythonUndoBlock
PyConstruct ==
    \E o \in PyBlocks :
        /\ block[o] = Destroyed
        /\ block' = [block EXCEPT ![o] = Null]
        /\ Commit(Cur) /\ Did("Construct", o, TRUE, Cur)
        /\ detail' = [o |-> o, exc |-> None]
        /\ UNCHANGED <<txn, frames, edits, blocks>>

PyOpen ==
    \E o \in PyBlocks :
        /\ block[o] # Destroyed
        /\ LET r == Open(Cur, block[o])
           IN  /\ Commit(r.router) /\ Did("Open", o, TRUE, r.router)
               /\ block' = [block EXCEPT ![o] = r.block]
        /\ detail' = [o |-> o, exc |-> None]
        /\ UNCHANGED <<txn, frames, edits, blocks>>

PyClose ==
    \E o \in PyBlocks, exc \in ExitPaths :
        /\ block[o] \in {Null, Allocated}
        /\ LET r == Close(Cur, block[o], exc)
           IN  /\ IF r.router.notify
                  THEN /\ Suspend(r.router, Frame("Close", o, blocks))
                       /\ block' = [block EXCEPT ![o] = Deleting]
                  ELSE /\ Commit(r.router) /\ UNCHANGED frames
                       /\ block' = [block EXCEPT ![o] = r.block]
               /\ Did("Close", o, TRUE, r.router)
        /\ detail' = [o |-> o, exc |-> exc]
        /\ UNCHANGED <<txn, edits, blocks>>

PyDestroy ==
    \E o \in PyBlocks :
        /\ block[o] \in {Null, Allocated}
        /\ LET s == Destroy(Cur, block[o])
           IN  /\ IF s.notify
                  THEN Suspend(s, Frame("Destroy", o, blocks))
                  ELSE Commit(s) /\ UNCHANGED frames
               /\ Did("Destroy", o, TRUE, s)
        /\ block' = [block EXCEPT ![o] = Destroyed]
        /\ detail' = [o |-> o, exc |-> None]
        /\ UNCHANGED <<txn, edits, blocks>>

\* The listener returns: Close, when it is Close that waits, sets _block to 0.
PyNoticeReturn ==
    /\ NoticeReturn
    /\ LET f == frames[Len(frames)]
       IN  block' = IF f.kind = "Close"
                    THEN [block EXCEPT ![f.m] = Null] ELSE block
    /\ UNCHANGED detail

PyEdit ==
    /\ \E m \in FieldWrites(data, {PathAB}) :
            m.value = Some(2) /\ Edit(m, MaxEdits)
    /\ UNCHANGED <<detail, block>>

NextPy ==
    \/ PyConstruct /\ UNCHANGED <<PyHeld, running, views>>
    \/ PyOpen /\ UNCHANGED <<PyHeld, running, views>>
    \/ PyClose /\ UNCHANGED <<PyHeld, running, views>>
    \/ PyDestroy /\ UNCHANGED <<PyHeld, running, views>>
    \/ PyNoticeReturn /\ UNCHANGED <<PyHeld, running, views>>
    \/ PyEdit /\ UNCHANGED <<PyHeld, running, views>>
    \/ HostTransfer /\ UNCHANGED scenario /\ UNCHANGED others

SpecPy == Init /\ [][NextPy]_vars

(***************************************************************************)
(* Properties.                                                             *)
(***************************************************************************)
FieldWriteKinds == {"SetField", "SetFieldDictValueByKey", "SetTimeSample"}

\* The field a field write writes.
WrittenField(m) ==
    CASE m.kind = "SetField" -> m.field
      [] m.kind = "SetFieldDictValueByKey" -> m.field
      [] m.kind = "SetTimeSample" -> TimeSamples

OnlyFieldWrites == \A i \in 1..Len(batch) : batch[i].kind \in FieldWriteKinds

\* C1: with a transaction adopted from a closed batch and nothing else
\* touching the layer, the router or the transaction, an even number of
\* Invert() calls leaves the layer as it was when the batch was adopted (the
\* forward state) and an odd number leaves it as it was before the batch.
C1_RoundTrip ==
    phase = "adopted" =>
        data = (IF inverts % 2 = 0 THEN after ELSE before)

C1_Witness ==
    /\ phase = "adopted"
    /\ inverts = 2
    /\ last.op = "Invert"
    /\ Len(batch) = 2
    /\ after # before
    /\ data = after

\* C2: after a batch of field writes (several of them to one field or not),
\* Invert() on the adopted transaction leaves every written field with the
\* value it had before the block was opened.
C2_FieldWritesRestored ==
    (phase = "adopted" /\ inverts = 1 /\ OnlyFieldWrites) =>
        \A i \in 1..Len(batch) :
            GetField(data, batch[i].path, WrittenField(batch[i]))
                = GetField(before, batch[i].path, WrittenField(batch[i]))

C2_Witness ==
    /\ phase = "adopted"
    /\ inverts = 1
    /\ last.op = "Invert"
    /\ Len(batch) = 2
    /\ batch[1].kind = "SetField"
    /\ batch[2].kind = "SetField"
    /\ batch[1].path = batch[2].path
    /\ batch[1].value # batch[2].value
    /\ GetField(after, batch[1].path, Default)
            # GetField(before, batch[1].path, Default)
    /\ GetField(data, batch[1].path, Default)
            = GetField(before, batch[1].path, Default)

\* A notice goes out to the listener in this step.
NoticeSent == Len(frames') = Len(frames) + 1

\* The step ends with the destructor of a block that takes the depth from 1
\* to 0: of a block of the host, of the block of _AddInverse, or of the block
\* of Invert().
OuterClose ==
    \/ last'.op = "BlockClose" /\ depth = 1
    \/ last'.op = "Edit" /\ depth = 0 /\ ~(muteDepth > 0)
    \/ last'.op = "Invert" /\ depth = 0

\* C3: a notice is sent exactly when the destructor of a block takes the
\* depth from 1 to 0 while the pending list is not empty, once, and at no
\* other time.
C3_NoticeExactlyOnOuterClose ==
    [][/\ NoticeSent <=> (OuterClose /\ inversion' # <<>>)
       /\ Len(frames') <= Len(frames) + 1
       /\ last'.sent = 0]_vars

C3_Witness ==
    /\ last.op = "BlockClose"
    /\ frames # <<>>
    /\ depth = 0
    /\ Len(inversion) = 2

\* C4: one block opened at depth 0, one field write in it, the block closed:
\* one notice has been sent, and the TransferEdits made in response gives a
\* transaction of one inverse.
C4_OneWriteOneNotice ==
    (/\ Len(batch) = 1
     /\ batch[1].kind \in FieldWriteKinds
     /\ phase \notin {"idle", "open"}) =>
        /\ phase # "empty"
        /\ notices = 1
        /\ phase \in {"adopting", "adopted"} => Len(txn["T"]) = 1

C4_Witness ==
    /\ Len(batch) = 1
    /\ batch[1].kind = "SetField"
    /\ phase = "adopting"
    /\ last.op = "TransferEdits"
    /\ notices = 1
    /\ Len(txn["T"]) = 1

\* C5: the depth is never negative and is the number of blocks that are open.
C5_DepthIsOpenBlocks == depth >= 0 /\ depth = blocks

C5_Witness ==
    /\ depth = 2
    /\ blocks = 2
    /\ last.op = "Edit"
    /\ Len(inversion) = 2

\* C6: the mute depth is never negative.
C6_MuteDepthNeverNegative == muteDepth >= 0

\* The step is a primitive mutation of the layer.
Mutates == edits' = edits + 1

\* The mutation of the step reaches the storage: in the step, or when the
\* listener of the notice the step sends returns.
StorageWritten ==
    \E m \in Mutations(data, Paths) :
        \/ frames' = frames /\ data' = Prim(data, m)
        \/ frames' = Append(frames, Frame("edit", m, blocks))

\* C7: a mutation appends one inverse to the pending list when the mute depth
\* is 0, and appends nothing, opens no block and sends no notice when it is
\* not 0; the storage is written in both cases.
C7_CapturedIffMuteDepthZero ==
    [][Mutates =>
        /\ muteDepth = 0 =>
                /\ Len(inversion') = Len(inversion) + 1
                /\ SubSeq(inversion', 1, Len(inversion)) = inversion
        /\ muteDepth # 0 =>
                /\ inversion' = inversion
                /\ depth' = depth
                /\ frames' = frames
        /\ StorageWritten]_vars

\* C8: with no call in progress and depth 0, the pending list is empty.
C8_PendingEmptyAtRest ==
    (frames = <<>> /\ depth = 0) => inversion = <<>>

C8_Witness ==
    /\ frames = <<>>
    /\ depth = 0
    /\ last.op = "NoticeReturn"
    /\ ErrNotAdopted \in last.errs
    /\ inversion = <<>>

\* C9: TransferEdits returns true and leaves the pending list empty; a
\* transaction that was empty holds what was pending, in capture order.
C9_TransferMovesPending ==
    [][last'.op = "TransferEdits" =>
        /\ last'.ret = TRUE
        /\ inversion' = <<>>
        /\ \E t \in Txns :
              /\ \A u \in Txns \ {t} : txn'[u] = txn[u]
              /\ txn[t] = <<>> => txn'[t] = inversion]_vars

C9_Witness ==
    /\ last.op = "TransferEdits"
    /\ last.ret = TRUE
    /\ Len(txn["T"]) = 2
    /\ txn["T"][1] # txn["T"][2]
    /\ inversion = <<>>

\* C10: when the listener returns without having adopted the pending list,
\* the destructor reports it and clears the list and then returns: nothing of
\* the batch is left in the router or gets into a transaction.
C10_UnadoptedBatchDropped ==
    [][(last'.op = "NoticeReturn" /\ inversion # <<>>) =>
        /\ ErrNotAdopted \in last'.errs
        /\ inversion' = <<>>
        /\ txn' = txn
        /\ Len(frames') = Len(frames) - 1]_vars

C10_Witness ==
    /\ last.op = "NoticeReturn"
    /\ ErrNotAdopted \in last.errs
    /\ inversion = <<>>
    /\ txn["T"] = <<>>
    /\ edits = 2

\* The step constructs a block of the host.
Opens == blocks' = blocks + 1

\* C11: the constructor of a block reports the fragmented block exactly when
\* it runs at depth 0 with a pending list that is not empty; it leaves the
\* pending list as it is and increments the depth in every case, and reports
\* nothing at depth > 0 or with an empty pending list.
C11_FragmentedBlockReported ==
    [][Opens =>
        /\ depth' = depth + 1
        /\ inversion' = inversion
        /\ IF depth = 0 /\ inversion # <<>>
           THEN last'.errs = {ErrFragmented}
           ELSE last'.errs = {}]_vars

C11_Witness ==
    /\ last.op = "BlockOpen"
    /\ ErrFragmented \in last.errs
    /\ depth = 1
    /\ inversion # <<>>
    /\ frames # <<>>

DeletedRoots ==
    {batch[i].path : i \in {j \in 1..Len(batch) : batch[j].kind = "DeleteSpec"}}

Reverse(seq) == [i \in 1..Len(seq) |-> seq[Len(seq) + 1 - i]]

\* The inverses the last Invert() called, in the order it called them, and
\* the inverses the transaction held, last to first.
Called == [i \in 1..Len(detail.applied) |-> detail.applied[i].op]

HeldReversed == Reverse(detail.held)

Inverted == last.op = "Invert"

\* The write an inverse is to make when it is called.
Forward(op) ==
    CASE op.kind = "InvertSetField" ->
            [kind |-> "SetField", path |-> op.path, field |-> op.field,
             value |-> op.value]
      [] op.kind = "InvertSetFieldDictValueByKey" ->
            [kind |-> "SetFieldDictValueByKey", path |-> op.path,
             field |-> op.field, key |-> op.key, value |-> op.value]
      [] op.kind = "InvertSetTimeSample" ->
            [kind |-> "SetTimeSample", path |-> op.path, time |-> op.time,
             value |-> op.value]
      [] op.kind = "InvertCreateSpec" ->
            [kind |-> "DeleteSpec", path |-> op.path, inert |-> op.inert]
      [] op.kind = "InvertDeleteSpec" ->
            [kind |-> "CreateSpec", path |-> op.path, type |-> op.type,
             inert |-> op.inert]
      [] op.kind = "InvertMoveSpec" ->
            [kind |-> "MoveSpec", old |-> op.new, new |-> op.old]
      [] op.kind = "InvertPushTokenChild" ->
            [kind |-> "PopTokenChild", parent |-> op.parent,
             field |-> op.field, value |-> op.value]
      [] op.kind = "InvertPopTokenChild" ->
            [kind |-> "PushTokenChild", parent |-> op.parent,
             field |-> op.field, value |-> op.value]
      [] op.kind = "InvertPushPathChild" ->
            [kind |-> "PopPathChild", parent |-> op.parent,
             field |-> op.field, value |-> op.value]
      [] op.kind = "InvertPopPathChild" ->
            [kind |-> "PushPathChild", parent |-> op.parent,
             field |-> op.field, value |-> op.value]

\* The layers after an inverse has made its write.
Effect(d, op) ==
    IF op.kind = "InvertDeleteSpec"
    THEN SpecCopier(op.deleted, Prim(d, Forward(op)))
    ELSE Prim(d, Forward(op))

\* The layers after the inverses ops have been called one after the other,
\* those of a delegate whose layer has expired doing nothing.
RECURSIVE After(_, _, _)
After(d, ops, live) ==
    IF ops = <<>> THEN d
    ELSE After(IF live[This(Head(ops))] THEN Effect(d, Head(ops)) ELSE d,
               Tail(ops), live)

\* What the delegates capture while the inverses ops are called one after the
\* other: for each write made, its inverse.
RECURSIVE Captures(_, _, _)
Captures(d, ops, live) ==
    IF ops = <<>> THEN <<>>
    ELSE IF ~live[This(Head(ops))] THEN Captures(d, Tail(ops), live)
    ELSE <<InverseOf(d, Forward(Head(ops)))>>
            \o Captures(Effect(d, Head(ops)), Tail(ops), live)

\* C12: Invert() reports the open block exactly when it is called at a depth
\* other than 0, and at any depth it calls every inverse the transaction
\* holds, last to first, and the layers end up as those calls leave them.
C12_InvertInsideBlock ==
    Inverted =>
        /\ (ErrInvertInBlock \in last.errs) <=> (detail.depth # 0)
        /\ Called = HeldReversed
        /\ data = After(detail.from, HeldReversed, layer)

C12_Witness ==
    /\ Inverted
    /\ detail.depth = 1
    /\ depth = 1
    /\ ErrInvertInBlock \in last.errs
    /\ Len(detail.held) = 2
    /\ \A i \in 1..2 : detail.applied[i].ok
    /\ data # detail.from

\* C13: after Invert() called at depth 0, the transaction holds the inverses
\* captured from the writes of its own replay, in the order they were
\* captured, and none of those it held; the pending list is empty and the
\* depth is 0.
C13_InvertAdoptsItsReplay ==
    (Inverted /\ detail.depth = 0) =>
        /\ txn["T"] = Captures(detail.from, HeldReversed, layer)
        /\ inversion = <<>>
        /\ depth = 0
        /\ frames = <<>>

C13_Witness ==
    /\ Inverted
    /\ detail.depth = 0
    /\ Len(detail.held) = 2
    /\ Len(txn["T"]) = 2
    /\ txn["T"] # detail.held
    /\ txn["T"][1] # txn["T"][2]
    /\ inversion = <<>>

\* The spec an inverse works on.
Target(op) ==
    IF "path" \in DOMAIN op THEN op.path
    ELSE IF "parent" \in DOMAIN op THEN op.parent
    ELSE op.new

\* C15: the inverse captured i-th of n is called (n - i + 1)-th, and each
\* inverse that makes its write finds the spec it works on (the one that
\* creates a deleted spec again finds none).
C15_StrictReverseOrder ==
    Inverted =>
        /\ Len(detail.applied) = Len(detail.held)
        /\ \A i \in 1..Len(detail.held) :
              detail.applied[Len(detail.held) - i + 1].op = detail.held[i]
        /\ \A j \in 1..Len(detail.applied) :
              LET op == detail.applied[j].op
                  d == After(detail.from, SubSeq(Called, 1, j - 1), layer)
              IN  detail.applied[j].ok =>
                    (HasSpec(d, Target(op)) <=> op.kind # "InvertDeleteSpec")

C15_Witness ==
    /\ Inverted
    /\ inverts = 1
    /\ Len(detail.held) = 2
    /\ detail.held[1].kind = "InvertCreateSpec"
    /\ detail.held[2].kind = "InvertSetFieldDictValueByKey"
    /\ detail.held[2].path = detail.held[1].path
    /\ detail.applied[1].op = detail.held[2]
    /\ detail.applied[2].op = detail.held[1]
    /\ detail.applied[1].ok /\ detail.applied[2].ok
    /\ HasSpec(detail.from, detail.held[1].path)
    /\ ~HasSpec(data, detail.held[1].path)

\* The inverses the last Invert() called on a delegate whose layer had
\* expired.
OnExpired == {j \in 1..Len(detail.applied) : ~layer[This(detail.applied[j].op)]}

\* C17: an inverse of a delegate whose layer handle has expired returns false
\* and reports the expired layer, and changes nothing in the layers; an
\* inverse of a delegate whose layer is there reports no such thing.
C17_ExpiredLayerReported ==
    Inverted =>
        /\ \A j \in 1..Len(detail.applied) :
              detail.applied[j].ok <=> (j \notin OnExpired)
        /\ (ErrExpired \in last.errs) <=> (OnExpired # {})
        /\ \A p \in AllPaths : ~layer[LayerOf(p)] => data[p] = detail.from[p]
        /\ (OnExpired = 1..Len(detail.applied)) => data = detail.from

C17_Witness ==
    /\ Inverted
    /\ ~layer["L"]
    /\ Len(detail.applied) = 2
    /\ \A j \in 1..2 : ~detail.applied[j].ok
    /\ detail.applied[1].op.kind = "InvertDeleteSpec"
    /\ detail.applied[2].op.kind = "InvertMoveSpec"
    /\ ErrExpired \in last.errs
    /\ data = detail.from

\* C18: when an inverse returns false, Invert() still calls the inverses that
\* remain, in the same order, and they make their writes; it clears the
\* transaction and adopts what the replay captured, and the pending list is
\* empty.
C18_ReplayGoesOnAfterFailure ==
    (Inverted /\ \E j \in 1..Len(detail.applied) : ~detail.applied[j].ok) =>
        /\ \A j \in 1..Len(detail.held) :
              /\ j <= Len(detail.applied)
              /\ detail.applied[j].op = HeldReversed[j]
              /\ layer[This(HeldReversed[j])] => detail.applied[j].ok
        /\ Len(txn["T"]) =
              Cardinality({j \in 1..Len(detail.applied) : detail.applied[j].ok})
        /\ inversion = <<>>
        /\ \A p \in AllPaths :
              layer[LayerOf(p)] =>
                    data[p] = After(detail.from, HeldReversed, layer)[p]

C18_Witness ==
    /\ Inverted
    /\ Len(detail.applied) = 2
    /\ ~detail.applied[1].ok
    /\ detail.applied[2].ok
    /\ Len(txn["T"]) = 1
    /\ data # detail.from

\* C19: the caller of Invert() is handed false when an inverse failed and true
\* when every inverse made its write.
C19_InvertReturnsSuccess ==
    Inverted =>
        detail.ret = Some(\A j \in 1..Len(detail.applied) : detail.applied[j].ok)

\* The step is a call of TrackLayer.
Tracks == phase = "idle" /\ last'.op = "TrackLayer"

\* C20: TrackLayer on a valid layer attaches a new delegate and returns true;
\* on a layer that is not valid it returns false and attaches nothing.
C20_TrackLayerResult ==
    [][Tracks =>
        IF detail'.valid
        THEN /\ detail'.ret = Some(TRUE)
             /\ layer'[detail'.layer]
             /\ ~dirty'[detail'.layer]
        ELSE /\ detail'.ret = Some(FALSE)
             /\ layer' = layer
             /\ dirty' = dirty]_vars

(***************************************************************************)
(* What each kind of mutation captures, and what its inverse gives back    *)
(* (SpecBatch).                                                            *)
(***************************************************************************)
\* The layers after the mutations ms have been made one after the other.
RECURSIVE Folded(_, _)
Folded(d, ms) ==
    IF ms = <<>> THEN d ELSE Folded(Prim(d, Head(ms)), Tail(ms))

\* The layers as the i-th mutation of the batch finds them.
Found(i) == Folded(before, SubSeq(batch, 1, i - 1))

\* The batch has been adopted, one inverse for each mutation, and not yet
\* inverted.
Held ==
    /\ phase \in {"adopting", "adopted"}
    /\ inverts = 0
    /\ Len(txn["T"]) = Len(batch)

\* The batch has been adopted and inverted once.
Undone == phase = "adopted" /\ inverts = 1

OnlySampleWrites == \A i \in 1..Len(batch) : batch[i].kind = "SetTimeSample"

\* C25: a time-sample write on a spec without the time-samples field
\* captures the removal of the whole field; on a spec with the field it
\* captures a write of the sample's prior value at that time, or of no value
\* where there was no sample; Invert() on a batch of time-sample writes
\* leaves the time samples of every spec as they were before the batch.
C25_TimeSampleInverse ==
    /\ (phase \in {"adopting", "adopted"} /\ inverts = 0) =>
            Len(txn["T"]) = Len(batch)
    /\ Held =>
        \A i \in 1..Len(batch) :
            batch[i].kind = "SetTimeSample" =>
                IF ~HasField(Found(i), batch[i].path, TimeSamples)
                THEN txn["T"][i] =
                        [kind |-> "InvertSetField", path |-> batch[i].path,
                         field |-> TimeSamples, value |-> None]
                ELSE txn["T"][i] =
                        [kind |-> "InvertSetTimeSample",
                         path |-> batch[i].path, time |-> batch[i].time,
                         value |-> GetEntry(Found(i), batch[i].path,
                                            TimeSamples, batch[i].time)]
    /\ (Undone /\ OnlySampleWrites) =>
        \A p \in AllPaths :
            GetField(data, p, TimeSamples) = GetField(before, p, TimeSamples)

C25_Witness ==
    /\ Undone
    /\ last.op = "Invert"
    /\ Len(batch) = 2
    /\ OnlySampleWrites
    /\ batch[1].path = batch[2].path
    /\ batch[1].time # batch[2].time
    /\ batch[1].value # None /\ batch[2].value # None
    /\ ~HasField(before, batch[1].path, TimeSamples)
    /\ DOMAIN MapOf(after, batch[1].path, TimeSamples) = Times
    /\ ~HasField(data, batch[1].path, TimeSamples)

\* What the written field, or the written entry of it, holds in the layers d.
Holds(d, m) ==
    IF m.kind = "SetField" THEN GetField(d, m.path, m.field)
    ELSE GetEntry(d, m.path, m.field, m.key)

OnlyPlainWrites ==
    \A i \in 1..Len(batch) :
        batch[i].kind \in {"SetField", "SetFieldDictValueByKey"}

\* C26: the inverse of a field write or of a dictionary-entry write binds the
\* value the field (the entry) held just before that write, and no value
\* where it was unset; after Invert() on a batch of such writes, what was
\* unset before the batch is unset again.
C26_PriorValueCaptured ==
    /\ Held =>
        \A i \in 1..Len(batch) :
            /\ batch[i].kind = "SetField" =>
                  txn["T"][i] =
                      [kind |-> "InvertSetField", path |-> batch[i].path,
                       field |-> batch[i].field,
                       value |-> Holds(Found(i), batch[i])]
            /\ batch[i].kind = "SetFieldDictValueByKey" =>
                  txn["T"][i] =
                      [kind |-> "InvertSetFieldDictValueByKey",
                       path |-> batch[i].path, field |-> batch[i].field,
                       key |-> batch[i].key,
                       value |-> Holds(Found(i), batch[i])]
    /\ (Undone /\ OnlyPlainWrites) =>
        \A i \in 1..Len(batch) :
            /\ Holds(before, batch[i]) = None => Holds(data, batch[i]) = None
            /\ ~HasField(before, batch[i].path, batch[i].field)
                    => ~HasField(data, batch[i].path, batch[i].field)

C26_Witness ==
    /\ Undone
    /\ last.op = "Invert"
    /\ Len(batch) = 2
    /\ batch[1].kind = "SetFieldDictValueByKey"
    /\ batch[2].kind = "SetFieldDictValueByKey"
    /\ batch[1].path = batch[2].path
    /\ batch[1].value = Some(1)
    /\ batch[2].value = Some(2)
    /\ ~HasField(before, batch[1].path, CustomData)
    /\ Holds(after, batch[2]) = Some(2)
    /\ ~HasField(data, batch[1].path, CustomData)

StructuralKinds ==
    {"MoveSpec", "PushTokenChild", "PopTokenChild", "PushPathChild",
     "PopPathChild"}

OnlyStructural == \A i \in 1..Len(batch) : batch[i].kind \in StructuralKinds

\* The mutation that takes back the structural mutation m.
Symmetric(m) ==
    CASE m.kind = "MoveSpec" ->
            [kind |-> "MoveSpec", old |-> m.new, new |-> m.old]
      [] m.kind = "PushTokenChild" -> [m EXCEPT !.kind = "PopTokenChild"]
      [] m.kind = "PopTokenChild" -> [m EXCEPT !.kind = "PushTokenChild"]
      [] m.kind = "PushPathChild" -> [m EXCEPT !.kind = "PopPathChild"]
      [] m.kind = "PopPathChild" -> [m EXCEPT !.kind = "PushPathChild"]

\* C27: the inverse captured for a move makes the move back, the one for a
\* child push pops the same value from the same parent and field, the one
\* for a child pop pushes it; made on the layers as the mutation left them,
\* the write of the inverse gives the layers as the mutation found them, and
\* Invert() on a batch of such mutations gives the layers of before the batch.
C27_StructuralInverse ==
    /\ Held =>
        \A i \in 1..Len(batch) :
            batch[i].kind \in StructuralKinds =>
                /\ Forward(txn["T"][i]) = Symmetric(batch[i])
                /\ Prim(Prim(Found(i), batch[i]), Forward(txn["T"][i]))
                        = Found(i)
    /\ (Undone /\ OnlyStructural) => data = before

C27_Witness ==
    /\ Undone
    /\ last.op = "Invert"
    /\ Len(batch) = 2
    /\ batch[1].kind = "MoveSpec"
    /\ batch[2].kind = "PopTokenChild"
    /\ batch[2].parent = batch[1].new
    /\ Traverse(before, batch[1].old) = {PathA, PathAB}
    /\ Traverse(after, batch[1].new) = {PathC, PathCB}
    /\ ~HasSpec(after, batch[1].old)
    /\ ~HasField(after, batch[1].new, PrimChildren)
    /\ data = before

(***************************************************************************)
(* The dirty flag (SpecDirty).                                             *)
(***************************************************************************)
\* C28: a mutation of the tracked layer leaves its delegate dirty at any
\* depth and mute depth, and so does an Invert() that replays at least one
\* inverse on it; no call of the adapter (block open and close, the return
\* of a listener, TransferEdits, Invert, mute, unmute) takes a dirty
\* delegate to clean: only saving the layer does.
C28_MutationsMarkDirty ==
    [][/\ last'.op = "Edit" => dirty'["L"]
       /\ (last'.op = "Invert" /\ txn["T"] # <<>>) => dirty'["L"]
       /\ (dirty["L"] /\ ~dirty'["L"]) => last'.op = "Save"]_vars

C28_Witness ==
    /\ last.op = "Invert"
    /\ detail # None
    /\ ~detail.dirty
    /\ Len(detail.held) = 2
    /\ muteDepth = 1
    /\ data = InitData
    /\ dirty["L"]

\* C29: Invert() on an adopted batch leaves in the transaction one inverse
\* for each inverse it replayed; the one captured from replaying the inverse
\* of a spec deletion is the removal of the spec created again, whatever
\* fields and specs below it the copy gave back.
C29_RestoredSpecCapturedOnce ==
    Undone =>
        /\ Len(txn["T"]) = Len(batch)
        /\ \A i \in 1..Len(batch) :
              batch[i].kind = "DeleteSpec" =>
                  txn["T"][Len(batch) - i + 1] =
                      [kind |-> "InvertCreateSpec", path |-> batch[i].path,
                       inert |-> batch[i].inert]

C29_Witness ==
    /\ Undone
    /\ last.op = "Invert"
    /\ Len(batch) = 1
    /\ batch[1].kind = "DeleteSpec"
    /\ Traverse(before, batch[1].path) = {PathA, PathAB}
    /\ DOMAIN before[PathA].fields = {CustomData, PrimChildren}
    /\ DOMAIN before[PathAB].fields = {Default, TimeSamples}
    /\ Traverse(after, batch[1].path) = {}
    /\ data = before
    /\ Len(txn["T"]) = 1

(***************************************************************************)
(* Invert() and the notice (Spec).                                         *)
(***************************************************************************)
\* C30: a call of Invert() at depth 0, from a listener or not, with
\* whatever the transaction holds and whatever is pending, sends no notice:
\* it ends at depth 0 with nothing pending, all that was captured being in
\* the transaction.
C30_InvertSendsNoNotice ==
    [][(last'.op = "Invert" /\ depth = 0) =>
            /\ frames' = frames
            /\ last'.sent = 0
            /\ depth' = 0
            /\ inversion' = <<>>
            /\ Len(txn'["T"]) >= Len(inversion)]_vars

C30_Witness ==
    /\ last.op = "Invert"
    /\ depth = 0
    /\ frames = <<>>
    /\ ErrInvertInBlock \notin last.errs
    /\ Len(txn["T"]) = 2
    /\ inversion = <<>>
    /\ muteDepth = 0
    /\ data = InitData
    /\ edits = 2

(***************************************************************************)
(* Invert() and the edits that come in between (SpecInterleave).           *)
(***************************************************************************)
\* The inverses captured while the last Invert() ran, in the order they were
\* captured, and those of them that came from another edit.
LoggedOps == [i \in 1..Len(detail.log) |-> detail.log[i].op]

OtherOps == {i \in 1..Len(detail.log) : detail.log[i].who = "other"}

\* C21: when Invert() returns, the inverse of every edit captured between
\* the opening of its block and the adoption is in the inverting
\* transaction, at the place it was captured among those of the replay, and
\* no notice has been sent for it: nothing is pending and no listener has
\* been called since Invert() started.  With no such edit the transaction
\* holds the inverses of the writes of its own replay and nothing else.
C21_InterleavedEditAdopted ==
    (Inverted /\ running = None) =>
        /\ txn["T"] = LoggedOps
        /\ \A i \in OtherOps : txn["T"][i] = detail.log[i].op
        /\ inversion = <<>>
        /\ frames = <<>>
        /\ notices = detail.notices
        /\ OtherOps = {} =>
              txn["T"] = Captures(detail.from, HeldReversed, layer)

C21_Witness ==
    /\ Inverted
    /\ running = None
    /\ inverts = 1
    /\ Len(detail.held) = 2
    /\ Len(txn["T"]) = 3
    /\ OtherOps = {2}
    /\ txn["T"][2].kind = "InvertSetField"
    /\ txn["T"][2].path = PathAB
    /\ notices = 1

(***************************************************************************)
(* The prim id table (SpecTable).                                          *)
(***************************************************************************)
\* C22: ContainsId(id) returns true when the table holds an item for the id
\* and false when it holds none (an id never assigned, or one removed by a
\* resync).
C22_ContainsIdTellsStored ==
    last.op = "ContainsId" => (last.ret <=> detail.id \in DOMAIN idToItem)

\* C23: RegisterChild(id, index) for a child that is registered returns
\* true and leaves the table as it is: GetLastId() is the same, the child
\* has the id it had, and no item is added.
C23_RegisterChildIdempotent ==
    [][(last'.op = "RegisterChild" /\ detail'.again) =>
            /\ last'.ret
            /\ GetLastId(Table') = GetLastId(Table)
            /\ pathToId'[detail'.path[1]] = detail'.had
            /\ pathToId' = pathToId
            /\ idToItem' = idToItem]_vars

C23_Witness ==
    /\ last.op = "RegisterChild"
    /\ detail.again
    /\ detail.id = 1
    /\ detail.index = 0
    /\ last.ret
    /\ detail.had = 2
    /\ nextAvailableId = 3
    /\ <<"a">> \in DOMAIN pathToId
    /\ pathToId[<<"a">>] = 2


\* C24: once ApplyFilter has returned, GetState gives Intermediate for no
\* path, and what is stored for a prim the filter marked Intermediate is
\* Accept when a child of it is stored as Accept and Reject otherwise; no
\* entry of the map is ever Intermediate.
C24_NoIntermediateAfterApplyFilter ==
    /\ (last.op = "GetState" /\ ~detail.running)
            => last.ret # Intermediate
    /\ \A k \in DOMAIN stateMap : stateMap[k] # Intermediate
    /\ (last.op = "ApplyFilter" /\ last.ret) =>
        \A p \in stage :
            (GetState(stateMap, p) # Untraversed /\ filter[p] = Intermediate)
                => GetState(stateMap, p) =
                    IF \E q \in Range(GetFilteredChildren(stage, p)) :
                            GetState(stateMap, q) = Accept
                    THEN Accept ELSE Reject

C24_Witness ==
    /\ last.op = "GetState"
    /\ ~detail.running
    /\ detail.path = <<"a">>
    /\ <<"a", "x">> \in stage
    /\ filter # <<>>
    /\ filter[StageRoot] = Intermediate
    /\ filter[<<"a">>] = Intermediate
    /\ filter[<<"a", "x">>] = Accept
    /\ last.ret = Accept
    /\ GetState(stateMap, StageRoot) = Accept


\* C39: after any RegisterChild and ResyncSubtrees calls the two maps of the
\* table are mutually inverse: each id of the id map holds a path that the
\* path map gives that id, and each path of the path map has its id in the
\* id map.
C39_MapsMutuallyInverse ==
    /\ \A id \in DOMAIN idToItem :
        /\ idToItem[id].path \in DOMAIN pathToId
        /\ pathToId[idToItem[id].path] = id
    /\ \A path \in DOMAIN pathToId : pathToId[path] \in DOMAIN idToItem


\* The state stored for a prim, and whether one is stored.
Stored(p) == GetString(p) \in DOMAIN stateMap
StoredAs(p) == stateMap[GetString(p)]

\* C32: a prim the filter marked Intermediate is stored when each of its
\* filtered children is, as Accept if and only if one of them is stored as
\* Accept and as Reject otherwise; so an Intermediate prim with an accepted
\* prim below an Intermediate child is stored as Accept.
C32_IntermediateFollowsChildren ==
    \A p \in stage :
        (filter # <<>> /\ Stored(p) /\ filter[p] = Intermediate) =>
            LET children == Range(GetFilteredChildren(stage, p))
            IN  /\ \A q \in children : Stored(q) /\ StoredAs(q) # Intermediate
                /\ StoredAs(p) \in {Accept, Reject}
                /\ StoredAs(p) = Accept
                    <=> \E q \in children : StoredAs(q) = Accept
                /\ \A q \in children :
                    (/\ filter[q] = Intermediate
                     /\ \E g \in Range(GetFilteredChildren(stage, q)) :
                            filter[g] = Accept)
                        => StoredAs(p) = Accept

C32_Witness ==
    /\ last.op = "ApplyFilter"
    /\ last.ret
    /\ detail.root = StageRoot
    /\ stage = {StageRoot, <<"a">>, <<"a", "x">>, <<"b">>}
    /\ filter[StageRoot] = Intermediate
    /\ filter[<<"a">>] = Intermediate
    /\ filter[<<"a", "x">>] = Accept
    /\ filter[<<"b">>] = Reject
    /\ StoredAs(<<"b">>) = Reject
    /\ StoredAs(<<"a">>) = Accept
    /\ StoredAs(StageRoot) = Accept


\* C33: right after a call of Mute(), IsMuted() is true and a mutation of
\* the layer appends no inverse, whatever calls of Mute() and Unmute() were
\* made before.
C33_MutedAfterMute ==
    last.op = "Mute" =>
        /\ IsMuted(Cur)
        /\ \A m \in FieldWrites(data, {PathAB}) :
                On(Cur, m).inversion = inversion


\* C31: a step changes the list of a transaction only if it is Invert() on
\* that transaction or TransferEdits into it; and when TransferEdits has
\* returned the router's pending list is empty, the transaction holding what
\* it held followed by what was pending.
C31_TransactionFrame ==
    [][/\ \A t \in Txns :
            txn'[t] # txn[t] =>
                /\ last'.op \in {"Invert", "TransferEdits"}
                /\ detail'.t = t
       /\ last'.op = "TransferEdits" =>
            /\ inversion' = <<>>
            /\ txn'[detail'.t] = txn[detail'.t] \o inversion]_vars

C31_Witness ==
    /\ last.op = "Invert"
    /\ detail.t = "U"
    /\ Len(txn["T"]) = 1
    /\ Len(txn["U"]) = 1
    /\ txn["T"] # txn["U"]
    /\ muteDepth = 0
    /\ depth = 1
    /\ inversion = <<>>


\* The second batch has been adopted into T.
Both == phase \in {"adopting", "adopted"} /\ detail # None

\* C34: TransferEdits into a transaction that holds the inverses of a first
\* batch keeps them and appends the pending ones after them, in the order
\* they were captured; with two batches adopted one after the other, one
\* Invert() leaves the layer as it was before the first batch.
C34_SecondBatchAppended ==
    /\ (Both /\ inverts = 0) =>
        /\ Len(txn["T"]) = Len(batch)
        /\ SubSeq(txn["T"], 1, detail.n) = detail.first
        /\ \A i \in 1..Len(batch) :
                txn["T"][i] = InverseOf(Found(i), batch[i])
        /\ inversion = <<>>
    /\ (Both /\ phase = "adopted" /\ inverts = 1) => data = before

C34_Witness ==
    /\ Both
    /\ phase = "adopted"
    /\ inverts = 1
    /\ last.op = "Invert"
    /\ detail.n = 2
    /\ Len(batch) = 3
    /\ before # detail.middle
    /\ detail.middle # after
    /\ before # after
    /\ data = before


\* C35: when the listener of the notice opens no block, makes no edit and
\* calls no Invert(), no block is opened at depth 0 on a pending list that
\* is not empty, be it a block of the host, of _AddInverse or of Invert():
\* the fragmented block is never reported, the host adopting or not.
C35_NoFragmentWithoutReentry ==
    [][/\ ErrFragmented \notin last'.errs
       /\ (depth = 0 /\ last'.op \in {"BlockOpen", "Edit", "Invert"})
            => inversion = <<>>]_vars

C35_Witness ==
    /\ last.op = "BlockOpen"
    /\ depth = 1
    /\ edits = 2
    /\ Len(txn["T"]) = 1
    /\ inversion = <<>>
    /\ last.errs = {}


\* The step is a call of Invert() made while the router is muted.
MutedInvert == last'.op = "Invert" /\ IsMuted(Cur)

IsSuffix(s, t) ==
    Len(s) <= Len(t) /\ SubSeq(t, Len(t) - Len(s) + 1, Len(t)) = s

\* C37: Invert() called at a depth above 0 leaves the transaction with what
\* was pending in the router followed by the inverses of its replay, and
\* the router with nothing pending; the block that then takes the depth to
\* 0 sends its notice for inverses captured after that Invert() only, and
\* sends none when there are none.
C37_InvertInBlockDrains ==
    [][/\ (last'.op = "Invert" /\ depth > 0) =>
            /\ txn'["T"] = inversion \o
                                Captures(data, Reverse(txn["T"]), layer)
            /\ inversion' = <<>>
            /\ depth' = depth
            /\ ~NoticeSent
       /\ (inverts > 0 /\ last'.op = "BlockClose" /\ depth' = 0) =>
            /\ IsSuffix(inversion, batch)
            /\ inversion' = inversion
            /\ NoticeSent <=> inversion # <<>>]_vars

C37_Witness ==
    /\ last.op = "BlockClose"
    /\ depth = 0
    /\ inverts = 1
    /\ detail.depth = 1
    /\ Len(detail.held) = 1
    /\ Len(detail.pending) = 1
    /\ Len(txn["T"]) = 2
    /\ txn["T"][1] = detail.pending[1]
    /\ Len(frames) = 1
    /\ Len(inversion) = 1
    /\ inversion = batch


\* C38: a scripting-side UndoBlock object holds at most one open block.
\* __enter__ on an object that has not been exited and __exit__ on one that
\* has not been entered are reported and change neither the depth nor the
\* object; __exit__ on an entered object closes its block however the scope
\* was left, and so does dropping an entered object; the depth is the number
\* of objects that are entered and neither exited nor dropped.
Entered(b) == {o \in PyBlocks : b[o] = Allocated}
====
